---- MODULE Spec2Model ----
(***************************************************************************)
(* mobile-use: the control loop of TaskExecutor.execute, the action        *)
(* translator (executeAction), the history summary (formatAction), the     *)
(* stuck-pattern detector and conversation window of TaskAgent, and        *)
(* MaestroClient.inputLongText with smartChunk.                            *)
(*                                                                         *)
(* The oracle (TaskAgent.decide) and the automation backend                *)
(* (MaestroClient) are external: each of their calls either returns or     *)
(* throws, chosen nondeterministically.                                    *)
(***************************************************************************)
EXTENDS Integers, Sequences, FiniteSets, TLC

(***************************************************************************)
(* Bounds of the model.                                                    *)
(***************************************************************************)
\* largest step budget (config.maxSteps) explored; 0 is the degenerate
\* budget the command line does not reject
MaxStepsBound == 4

\* longest history handed to the stuck-pattern detector on its own
MaxProbeLen == 4

\* largest step budget explored by the runs that log their external outcomes
MaxTraceSteps == 3

\* steps left to a run taken up after its second step
MaxResumedSteps == 3

\* longest text given to inputLongText
MaxTextLen == 5

\* largest chunkSize given to inputLongText
MaxChunkSize == 3

\* most decide() calls made on one TaskAgent taken on its own
MaxDecideCalls == 8

(***************************************************************************)
(* Values.                                                                 *)
(***************************************************************************)
\* an absent optional field is the empty set, a present one a singleton
Absent == {}

Some(v) == {v}

The(opt) == CHOOSE v \in opt : TRUE

\* variant of OrDefault: a || d, which also replaces 0 and ''
OrDefault_Falsy(opt, d) ==
  IF opt = Absent \/ ToString(The(opt)) \in {ToString(0), ToString("")}
    THEN d ELSE The(opt)

\* a ?? d
OrDefault(opt, d) == IF opt = Absent THEN d ELSE The(opt)

\* AgentParams: every key optional
NoFields ==
  [x |-> Absent, y |-> Absent, text |-> Absent, appId |-> Absent,
   startX |-> Absent, startY |-> Absent, endX |-> Absent, endY |-> Absent,
   key |-> Absent, url |-> Absent, chars |-> Absent, timeout |-> Absent]

\* messages of the errors MaestroClient.launch can throw (runFlow)
LaunchErrors ==
  {"Maestro command failed: app not installed", "Maestro command failed: timed out"}

\* decision.reasoning and decision.progress values the oracle may return
Reasonings == {"goal visible on screen", "no way forward"}

Progresses == {40, 100}

\* the shapes of decision the oracle returns in the model: action kind,
\* whether a params object is present, and its fields
DecisionShapes ==
  { [action |-> "tap", hasParams |-> TRUE,
     params |-> [NoFields EXCEPT !.x = Some(80), !.y = Some(80)]],
    [action |-> "tap", hasParams |-> TRUE,
     params |-> [NoFields EXCEPT !.x = Some(20)]],
    [action |-> "tap", hasParams |-> FALSE, params |-> NoFields],
    [action |-> "scroll", hasParams |-> TRUE, params |-> NoFields],
    [action |-> "back", hasParams |-> TRUE, params |-> NoFields],
    [action |-> "done", hasParams |-> TRUE, params |-> NoFields],
    [action |-> "failed", hasParams |-> TRUE, params |-> NoFields] }

\* AgentDecision values
Decisions ==
  { [action |-> s.action, hasParams |-> s.hasParams, params |-> s.params,
     reasoning |-> r, progress |-> p] :
       s \in DecisionShapes, r \in Reasonings, p \in Progresses }

NoDecision ==
  [action |-> "none", hasParams |-> FALSE, params |-> NoFields,
   reasoning |-> "", progress |-> 0]

TimeoutReason == "Timeout - max steps exceeded"

(***************************************************************************)
(* State.                                                                  *)
(***************************************************************************)
VARIABLES
  hasBundleId,     \* MaestroClient.hasBundleId(): a target app is configured
  maxSteps,        \* config.maxSteps
  pc,              \* position of execute()
  steps,           \* let steps
  actionHistory,   \* const actionHistory: string[]
  decision,        \* let decision: the decision of the current iteration
  results,         \* the ExecutionResult values execute() has returned
  exit,            \* which return statement produced the result
  iterations,      \* loop bodies entered so far
  launchCalls,     \* maestro.launch() calls made
  captureCalls,    \* maestro.screenshot() calls made
  captureFails,    \* ... of which threw
  decideCalls,     \* agent.decide() calls made
  decideFails,     \* ... of which threw
  dispatches,      \* executeAction() calls made
  lastCalls,       \* backend primitives issued by the latest executeAction()
  lastCapture,     \* step index passed to the latest screenshot()
  iterStart,       \* snapshot taken when the current loop body was entered
  lastOutcome,     \* how the latest completed loop body ended
  launchError,     \* message of the error maestro.launch() threw, '' if none
  terminalSeen,    \* a 'done' or 'failed' decision has been received
  stuckWarning,    \* const stuckWarning of the latest agent.decide() call
  decideError,     \* message of the error the latest failed decide() threw
  context,         \* the AgentContext passed to the latest agent.decide() call
  conversationHistory, \* TaskAgent.conversationHistory: the roles of its messages
  sent,            \* the messages given to generateText by the latest decide()
  text,            \* inputLongText: the text to enter
  chunkSize,       \* inputLongText: chunkSize, smartChunk's maxSize
  remaining,       \* smartChunk: let remaining
  chunks,          \* smartChunk: const chunks
  typed,           \* the texts passed to maestro.inputText(), in call order
  recording,       \* whether this run keeps the log below
  trace            \* the outcomes of the external calls so far, in order,
                   \* decisions without their reasoning and progress

vars ==
  <<hasBundleId, maxSteps, pc, steps, actionHistory, decision, results, exit,
    iterations, launchCalls, captureCalls, captureFails, decideCalls,
    decideFails, dispatches, lastCalls, lastCapture, iterStart, lastOutcome,
    launchError, terminalSeen, stuckWarning, decideError, context,
    conversationHistory, sent, text, chunkSize, remaining, chunks, typed,
    recording, trace>>

config == <<hasBundleId, maxSteps, recording>>

observed == <<launchError, terminalSeen>>

agent == <<stuckWarning, decideError, context, conversationHistory, sent>>

typing == <<text, chunkSize, remaining, chunks, typed>>

counters ==
  <<launchCalls, captureCalls, captureFails, decideCalls, decideFails, dispatches>>

(***************************************************************************)
(* The action translator: executeAction and formatAction.                  *)
(***************************************************************************)
Call(prim, nums, strs) == [prim |-> prim, nums |-> nums, strs |-> strs]

\* variant of Truthy: params.text !== undefined
Truthy_Present(opt) == opt # Absent

\* params.text / params.appId as a condition: absent and '' are falsy
Truthy(opt) == opt # Absent /\ The(opt) # ""

\* the backend primitives executeAction issues for decision d when none of
\* them throws, in order; `back` is handled in executeAction
Primitives(d) ==
  LET p == d.params IN
  CASE d.action = "tap" ->
         <<Call("tap", <<OrDefault(p.x, 50), OrDefault(p.y, 50)>>, <<>>)>>
    [] d.action = "tapText" ->
         <<Call("tapText", <<>>, <<OrDefault(p.text, "")>>)>>
    [] d.action = "doubleTap" ->
         <<Call("doubleTap", <<OrDefault(p.x, 50), OrDefault(p.y, 50)>>, <<>>)>>
    [] d.action = "longPress" ->
         IF Truthy(p.text)
           THEN <<Call("longPressText", <<>>, <<The(p.text)>>)>>
           ELSE <<Call("longPress", <<OrDefault(p.x, 50), OrDefault(p.y, 50)>>, <<>>)>>
    [] d.action = "inputText" ->
         <<Call("inputText", <<>>, <<OrDefault(p.text, "")>>)>>
    [] d.action = "eraseText" ->
         <<Call("eraseText", <<OrDefault(p.chars, 50)>>, <<>>)>>
    [] d.action = "scroll" -> <<Call("scroll", <<>>, <<>>)>>
    [] d.action = "swipe" ->
         <<Call("swipe", <<OrDefault(p.startX, 50), OrDefault(p.startY, 50),
                           OrDefault(p.endX, 50), OrDefault(p.endY, 20)>>, <<>>)>>
    [] d.action = "back" -> <<Call("back", <<>>, <<>>)>>
    [] d.action = "hideKeyboard" -> <<Call("hideKeyboard", <<>>, <<>>)>>
    [] d.action = "openLink" -> <<Call("openLink", <<>>, <<OrDefault(p.url, "")>>)>>
    [] d.action = "pressKey" -> <<Call("pressKey", <<>>, <<OrDefault(p.key, "enter")>>)>>
    [] d.action = "wait" ->
         <<Call("waitForAnimation", <<OrDefault(p.timeout, 3000)>>, <<>>)>>
    [] d.action = "launchApp" ->
         IF Truthy(p.appId) THEN <<Call("launchApp", <<>>, <<The(p.appId)>>)>> ELSE <<>>
    [] d.action = "stopApp" ->
         IF Truthy(p.appId) THEN <<Call("stopApp", <<>>, <<The(p.appId)>>)>> ELSE <<>>
    [] OTHER -> <<>>

\* variant of executeAction: a primitive that throws is issued once more
executeAction_RetryOnce(d, failing) ==
  LET prims == Primitives(d) IN
  IF prims = <<>> THEN [calls |-> <<>>, threw |-> FALSE]
  ELSE IF d.action = "back" /\ 1 \in failing
    THEN [calls |-> prims \o <<Call("iosBackGesture", <<>>, <<>>)>>,
          threw |-> 2 \in failing]
    ELSE IF 1 \in failing
      THEN [calls |-> prims \o prims, threw |-> 2 \in failing]
      ELSE [calls |-> prims, threw |-> FALSE]

\* variant of executeAction: a failing back() is not followed by the gesture
executeAction_NoFallback(d, failing) ==
  LET prims == Primitives(d) IN
  IF prims = <<>> THEN [calls |-> <<>>, threw |-> FALSE]
  ELSE [calls |-> prims, threw |-> 1 \in failing]

\* variant of executeAction: the default case throws
executeAction_UnknownThrows(d, failing) ==
  LET prims == Primitives(d) IN
  IF prims = <<>>
    THEN [calls |-> <<>>, threw |-> d.action \notin {"launchApp", "stopApp"}]
  ELSE IF d.action = "back" /\ 1 \in failing
    THEN [calls |-> prims \o <<Call("iosBackGesture", <<>>, <<>>)>>,
          threw |-> 2 \in failing]
    ELSE [calls |-> prims, threw |-> 1 \in failing]

\* executeAction(decision), where `failing` is the set of positions (1 = the
\* first backend call of this dispatch, 2 = the second) at which the backend
\* throws: the calls issued, and whether executeAction throws
executeAction(d, failing) ==
  LET prims == Primitives(d) IN
  IF prims = <<>> THEN [calls |-> <<>>, threw |-> FALSE]
  ELSE IF d.action = "back" /\ 1 \in failing
    THEN [calls |-> prims \o <<Call("iosBackGesture", <<>>, <<>>)>>,
          threw |-> 2 \in failing]
    ELSE [calls |-> prims, threw |-> 1 \in failing]

\* `${v}` of an optional number
NumStr(opt) == IF opt = Absent THEN "undefined" ELSE ToString(The(opt))

\* `${v}` of an optional string
Str(opt) == IF opt = Absent THEN "undefined" ELSE The(opt)

\* `${params.text?.slice(0, 20)}`
TextHead(opt) ==
  IF opt = Absent THEN "undefined"
  ELSE IF Len(The(opt)) > 20 THEN SubSeq(The(opt), 1, 20) ELSE The(opt)

\* formatAction(decision): the history summary
formatAction(d) ==
  LET p == d.params IN
  IF ~d.hasParams THEN d.action
  ELSE CASE d.action \in {"tap", "doubleTap", "longPress"} ->
              d.action \o "(" \o NumStr(p.x) \o "," \o NumStr(p.y) \o ")"
         [] d.action \in {"tapText", "inputText"} ->
              d.action \o "(\"" \o TextHead(p.text) \o "\")"
         [] d.action = "swipe" ->
              "swipe(" \o NumStr(p.startX) \o "," \o NumStr(p.startY) \o "->"
                       \o NumStr(p.endX) \o "," \o NumStr(p.endY) \o ")"
         [] d.action \in {"launchApp", "stopApp"} ->
              d.action \o "(\"" \o Str(p.appId) \o "\")"
         [] OTHER -> d.action

(***************************************************************************)
(* TaskAgent: the stuck-pattern detector and the failures of decide().     *)
(***************************************************************************)
\* variant of StartsWithTap: a.startsWith('tap')
StartsWithTap_AnyTap(a) == Len(a) >= 3 /\ SubSeq(a, 1, 3) = "tap"

\* a.startsWith('tap(')
StartsWithTap(a) == Len(a) >= 4 /\ SubSeq(a, 1, 4) = "tap("

StrongHintHead == "WARNING: You've tried \""

StrongHintTail ==
  "\" 3 times with no progress. The tap coordinates may be WRONG. Try:\n"
    \o "1. DIFFERENT coordinates (shift by 5-10%)\n"
    \o "2. tapText instead of tap (if there's visible text)\n"
    \o "3. scroll to reveal hidden elements\n"
    \o "4. A completely different approach"

\* the hint returned when the last three entries are the same string
StrongHint(entry) == StrongHintHead \o entry \o StrongHintTail

\* the hint returned when two of the last three entries are taps
TapHint ==
  "NOTE: Multiple tap attempts detected. If tapping isn't working, the button "
    \o "might be at different coordinates than expected. Try adjusting by 5-10% "
    \o "or use tapText if visible text exists."

\* history.slice(-3), for a history of at least 3 entries
LastThree(history) == SubSeq(history, Len(history) - 2, Len(history))

\* variant of detectStuckPattern: no length check before slice(-3)
detectStuckPattern_NoLengthCheck(history) ==
  LET lastThree ==
        SubSeq(history, IF Len(history) > 3 THEN Len(history) - 2 ELSE 1, Len(history))
      allSame == \A i \in 1..Len(lastThree) : lastThree[i] = lastThree[1]
      tapPattern == SelectSeq(lastThree, StartsWithTap)
  IN IF allSame /\ history # <<>> THEN Some(StrongHint(lastThree[1]))
     ELSE IF Len(tapPattern) >= 2 THEN Some(TapHint)
     ELSE Absent

\* variant of detectStuckPattern: the tap pattern is tested before allSame
detectStuckPattern_TapFirst(history) ==
  IF Len(history) < 3 THEN Absent
  ELSE LET lastThree == LastThree(history)
           allSame == \A i \in 1..3 : lastThree[i] = lastThree[1]
           tapPattern == SelectSeq(lastThree, StartsWithTap)
       IN IF Len(tapPattern) >= 2 THEN Some(TapHint)
          ELSE IF allSame THEN Some(StrongHint(lastThree[1]))
          ELSE Absent

\* variant of detectStuckPattern: the tap hint needs three taps
detectStuckPattern_ThreeTaps(history) ==
  IF Len(history) < 3 THEN Absent
  ELSE LET lastThree == LastThree(history)
           allSame == \A i \in 1..3 : lastThree[i] = lastThree[1]
           tapPattern == SelectSeq(lastThree, StartsWithTap)
       IN IF allSame THEN Some(StrongHint(lastThree[1]))
          ELSE IF Len(tapPattern) > 2 THEN Some(TapHint)
          ELSE Absent

\* detectStuckPattern(history): Absent is null
detectStuckPattern(history) ==
  IF Len(history) < 3 THEN Absent
  ELSE LET lastThree == LastThree(history)
           allSame == \A i \in 1..3 : lastThree[i] = lastThree[1]
           tapPattern == SelectSeq(lastThree, StartsWithTap)
       IN IF allSame THEN Some(StrongHint(lastThree[1]))
          ELSE IF Len(tapPattern) >= 2 THEN Some(TapHint)
          ELSE Absent

\* AgentContext as execute() builds it (task, successCriteria and
\* constraints are fixed per run and left out)
AgentContext(stepNumber, max, history) ==
  [stepNumber |-> stepNumber, maxSteps |-> max, actionHistory |-> history]

\* no decide() call has been made
NoContext == AgentContext(0, 0, <<>>)

\* variant of Trimmed: the window is cut only beyond 12 messages
Trimmed_Late(conv) ==
  IF Len(conv) > 12 THEN SubSeq(conv, Len(conv) - 7, Len(conv)) ELSE conv

\* if (conversationHistory.length > 10) conversationHistory = slice(-8)
Trimmed(conv) ==
  IF Len(conv) > 10 THEN SubSeq(conv, Len(conv) - 7, Len(conv)) ELSE conv

\* decide() up to its await: trim, then push the user message
WithUserMessage(conv) == Append(Trimmed(conv), "user")

\* generateText resolved: push the assistant message
WithAssistantMessage(conv) == Append(conv, "assistant")

\* messages of the errors agent.decide() can throw: generateText rejects,
\* the response holds no {...}, or JSON.parse rejects the match
DecideErrors ==
  {"generateText failed", "No JSON found in AI response", "Unexpected token in JSON"}

(***************************************************************************)
(* TaskExecutor.execute                                                    *)
(***************************************************************************)
ExecutionResult(success, reason, n) ==
  [success |-> success, reason |-> reason, steps |-> n]

\* a decision as the control flow may use it: reasoning and progress blanked
Redact(d) == [d EXCEPT !.reasoning = "", !.progress = 0]

\* one outcome of an external call: the kind of outcome, the decision it
\* concerns, and the positions at which the backend threw in its dispatch
Event(kind, d, failing) == [kind |-> kind, decision |-> Redact(d), failing |-> failing]

\* log the outcome when the run is recording
Record(ev) == trace' = IF recording THEN Append(trace, ev) ELSE trace

Snapshot ==
  [steps |-> steps, history |-> actionHistory, decideCalls |-> decideCalls,
   dispatches |-> dispatches, captureCalls |-> captureCalls,
   lastCapture |-> lastCapture, lastOutcome |-> lastOutcome]

Init ==
  /\ hasBundleId \in BOOLEAN
  /\ maxSteps \in 0..MaxStepsBound
  /\ pc = "launch"
  /\ steps = 0
  /\ actionHistory = <<>>
  /\ decision = NoDecision
  /\ results = <<>>
  /\ exit = "none"
  /\ iterations = 0
  /\ launchCalls = 0
  /\ captureCalls = 0
  /\ captureFails = 0
  /\ decideCalls = 0
  /\ decideFails = 0
  /\ dispatches = 0
  /\ lastCalls = <<>>
  /\ lastCapture = 0
  /\ lastOutcome = "none"
  /\ launchError = ""
  /\ terminalSeen = FALSE
  /\ stuckWarning = Absent
  /\ decideError = ""
  /\ context = NoContext
  /\ conversationHistory = <<>>
  /\ sent = <<>>
  /\ text = ""
  /\ chunkSize = 0
  /\ remaining = ""
  /\ chunks = <<>>
  /\ typed = <<>>
  /\ recording = FALSE
  /\ trace = <<>>
  /\ iterStart = Snapshot

\* return r, from the return statement named by `how`
Return(r, how) ==
  /\ results' = Append(results, r)
  /\ exit' = how
  /\ pc' = "returned"

\* maestro.launch() resolves: push 'launched', sleep, enter the loop
LaunchOk ==
  /\ pc = "launch"
  /\ hasBundleId
  /\ launchCalls' = launchCalls + 1
  /\ actionHistory' = Append(actionHistory, "launched")
  /\ pc' = "loop"
  /\ Record(Event("launchOk", NoDecision, {}))
  /\ UNCHANGED <<agent, observed, config, typing, steps, decision, results, exit, iterations,
                 captureCalls, captureFails, decideCalls, decideFails,
                 dispatches, lastCalls, lastCapture, iterStart, lastOutcome>>

\* variant of LaunchFail: the 'launched' marker is pushed before the launch
\* is awaited
LaunchFail_PushFirst ==
  /\ pc = "launch"
  /\ hasBundleId
  /\ \E msg \in LaunchErrors :
       /\ launchCalls' = launchCalls + 1
       /\ launchError' = msg
       /\ Return(ExecutionResult(FALSE, msg, 0), "launchFail")
  /\ actionHistory' = Append(actionHistory, "launched")
  /\ Record(Event("launchFail", NoDecision, {}))
  /\ UNCHANGED <<agent, terminalSeen, config, typing, steps, decision, iterations,
                 captureCalls, captureFails, decideCalls, decideFails,
                 dispatches, lastCalls, lastCapture, iterStart, lastOutcome>>

\* maestro.launch() throws: the run ends with the error's message
LaunchFail ==
  /\ pc = "launch"
  /\ hasBundleId
  /\ \E msg \in LaunchErrors :
       /\ launchCalls' = launchCalls + 1
       /\ launchError' = msg
       /\ Return(ExecutionResult(FALSE, msg, 0), "launchFail")
  /\ Record(Event("launchFail", NoDecision, {}))
  /\ UNCHANGED <<agent, terminalSeen, config, typing, steps, actionHistory, decision, iterations,
                 captureCalls, captureFails, decideCalls, decideFails,
                 dispatches, lastCalls, lastCapture, iterStart, lastOutcome>>

\* variant of SkipLaunch: the marker pushed is 'launched'
SkipLaunch_Launched ==
  /\ pc = "launch"
  /\ ~hasBundleId
  /\ actionHistory' = Append(actionHistory, "launched")
  /\ pc' = "loop"
  /\ Record(Event("skipLaunch", NoDecision, {}))
  /\ UNCHANGED <<agent, observed, config, typing, steps, decision, results, exit, iterations,
                 counters, lastCalls, lastCapture, iterStart, lastOutcome>>

\* no bundle id: push 'ready', sleep, enter the loop
SkipLaunch ==
  /\ pc = "launch"
  /\ ~hasBundleId
  /\ actionHistory' = Append(actionHistory, "ready")
  /\ pc' = "loop"
  /\ Record(Event("skipLaunch", NoDecision, {}))
  /\ UNCHANGED <<agent, observed, config, typing, steps, decision, results, exit, iterations, counters,
                 lastCalls, lastCapture, iterStart, lastOutcome>>

\* while (steps < maxSteps) { steps++; ... screenshot(steps) requested
BeginStep ==
  /\ pc = "loop"
  /\ steps < maxSteps
  /\ steps' = steps + 1
  /\ iterations' = iterations + 1
  /\ iterStart' = Snapshot
  /\ decision' = NoDecision
  /\ captureCalls' = captureCalls + 1
  /\ lastCapture' = steps'
  /\ pc' = "capture"
  /\ UNCHANGED <<trace, agent, observed, config, typing, actionHistory, results, exit, launchCalls,
                 captureFails, decideCalls, decideFails, dispatches, lastCalls,
                 lastOutcome>>

\* variant of CaptureOk: a hint once given is kept for the later oracle
\* calls instead of being computed again
CaptureOk_KeepsHint ==
  /\ pc = "capture"
  /\ decideCalls' = decideCalls + 1
  /\ stuckWarning' = IF stuckWarning # Absent THEN stuckWarning
                      ELSE detectStuckPattern(actionHistory)
  /\ context' = AgentContext(steps, maxSteps, actionHistory)
  /\ conversationHistory' = WithUserMessage(conversationHistory)
  /\ sent' = conversationHistory'
  /\ pc' = "decide"
  /\ UNCHANGED <<trace, decideError, observed, config, typing, steps, actionHistory, decision, results, exit,
                 iterations, launchCalls, captureCalls, captureFails,
                 decideFails, dispatches, lastCalls, lastCapture, iterStart,
                 lastOutcome>>

\* variant of CaptureOk: the step index passed to the oracle counts the
\* completed steps
CaptureOk_ZeroBased ==
  /\ pc = "capture"
  /\ decideCalls' = decideCalls + 1
  /\ stuckWarning' = detectStuckPattern(actionHistory)
  /\ context' = AgentContext(steps - 1, maxSteps, actionHistory)
  /\ conversationHistory' = WithUserMessage(conversationHistory)
  /\ sent' = conversationHistory'
  /\ pc' = "decide"
  /\ UNCHANGED <<trace, decideError, observed, config, typing, steps, actionHistory, decision, results, exit,
                 iterations, launchCalls, captureCalls, captureFails,
                 decideFails, dispatches, lastCalls, lastCapture, iterStart,
                 lastOutcome>>

\* screenshot() resolves; agent.decide() is called
CaptureOk ==
  /\ pc = "capture"
  /\ decideCalls' = decideCalls + 1
  /\ stuckWarning' = detectStuckPattern(actionHistory)
  /\ context' = AgentContext(steps, maxSteps, actionHistory)
  /\ conversationHistory' = WithUserMessage(conversationHistory)
  /\ sent' = conversationHistory'
  /\ pc' = "decide"
  /\ UNCHANGED <<trace, decideError, observed, config, typing, steps, actionHistory, decision, results, exit,
                 iterations, launchCalls, captureCalls, captureFails,
                 decideFails, dispatches, lastCalls, lastCapture, iterStart,
                 lastOutcome>>

\* variant of CaptureFail: the failed step is given back (steps--) so that
\* the same step index is retried
CaptureFail_Retry ==
  /\ pc = "capture"
  /\ captureFails' = captureFails + 1
  /\ steps' = steps - 1
  /\ lastOutcome' = "captureFail"
  /\ pc' = "loop"
  /\ Record(Event("captureFail", NoDecision, {}))
  /\ UNCHANGED <<agent, observed, config, typing, actionHistory, decision, results, exit,
                 iterations, launchCalls, captureCalls, decideCalls,
                 decideFails, dispatches, lastCalls, lastCapture, iterStart>>

\* variant of CaptureFail: the failure is recorded in the history as 'error'
CaptureFail_Recorded ==
  /\ pc = "capture"
  /\ captureFails' = captureFails + 1
  /\ actionHistory' = Append(actionHistory, "error")
  /\ lastOutcome' = "captureFail"
  /\ pc' = "loop"
  /\ Record(Event("captureFail", NoDecision, {}))
  /\ UNCHANGED <<agent, observed, config, typing, steps, decision, results, exit,
                 iterations, launchCalls, captureCalls, decideCalls,
                 decideFails, dispatches, lastCalls, lastCapture, iterStart>>

\* variant of CaptureFail: the catch has no continue, so the oracle is
\* called without a screenshot
CaptureFail_Proceeds ==
  /\ pc = "capture"
  /\ captureFails' = captureFails + 1
  /\ decideCalls' = decideCalls + 1
  /\ stuckWarning' = detectStuckPattern(actionHistory)
  /\ context' = AgentContext(steps, maxSteps, actionHistory)
  /\ conversationHistory' = WithUserMessage(conversationHistory)
  /\ sent' = conversationHistory'
  /\ pc' = "decide"
  /\ Record(Event("captureFail", NoDecision, {}))
  /\ UNCHANGED <<decideError, observed, config, typing, steps, actionHistory, decision, results, exit,
                 iterations, launchCalls, captureCalls, decideFails,
                 dispatches, lastCalls, lastCapture, iterStart, lastOutcome>>

\* screenshot() throws: warn, sleep, continue
CaptureFail ==
  /\ pc = "capture"
  /\ captureFails' = captureFails + 1
  /\ lastOutcome' = "captureFail"
  /\ pc' = "loop"
  /\ Record(Event("captureFail", NoDecision, {}))
  /\ UNCHANGED <<agent, observed, config, typing, steps, actionHistory, decision, results, exit,
                 iterations, launchCalls, captureCalls, decideCalls,
                 decideFails, dispatches, lastCalls, lastCapture, iterStart>>

\* agent.decide() resolves with a decision
DecideOk ==
  /\ pc = "decide"
  /\ \E d \in Decisions :
       /\ decision' = d
       /\ terminalSeen' = (terminalSeen \/ d.action \in {"done", "failed"})
  /\ conversationHistory' = WithAssistantMessage(conversationHistory)
  /\ pc' = "handle"
  /\ UNCHANGED <<trace, stuckWarning, decideError, context, sent, launchError, config, typing, steps, actionHistory, results, exit, iterations,
                 counters, lastCalls, lastCapture, iterStart, lastOutcome>>

\* variant of DecideFail: the failure is recorded in the history as 'error'
DecideFail_Recorded ==
  /\ pc = "decide"
  /\ decideFails' = decideFails + 1
  /\ \E msg \in DecideErrors :
       /\ decideError' = msg
       /\ conversationHistory' =
            IF msg = "generateText failed" THEN conversationHistory
            ELSE WithAssistantMessage(conversationHistory)
  /\ actionHistory' = Append(actionHistory, "error")
  /\ lastOutcome' = "decideFail"
  /\ pc' = "loop"
  /\ Record(Event("decideFail", NoDecision, {}))
  /\ UNCHANGED <<stuckWarning, context, sent, observed, config, typing, steps, decision, results, exit,
                 iterations, launchCalls, captureCalls, captureFails,
                 decideCalls, dispatches, lastCalls, lastCapture, iterStart>>

\* agent.decide() throws: warn, sleep, continue
DecideFail ==
  /\ pc = "decide"
  /\ decideFails' = decideFails + 1
  /\ \E msg \in DecideErrors :
       /\ decideError' = msg
       /\ conversationHistory' =
            IF msg = "generateText failed" THEN conversationHistory
            ELSE WithAssistantMessage(conversationHistory)
  /\ lastOutcome' = "decideFail"
  /\ pc' = "loop"
  /\ Record(Event("decideFail", NoDecision, {}))
  /\ UNCHANGED <<stuckWarning, context, sent, observed, config, typing, steps, actionHistory, decision, results, exit,
                 iterations, launchCalls, captureCalls, captureFails,
                 decideCalls, dispatches, lastCalls, lastCapture, iterStart>>

\* variant of ReturnDone: the result is produced but the loop is not left
ReturnDone_NoReturn ==
  /\ pc = "handle"
  /\ decision.action = "done"
  /\ results' = Append(results, ExecutionResult(TRUE, decision.reasoning, steps))
  /\ exit' = "done"
  /\ pc' = "loop"
  /\ lastOutcome' = "done"
  /\ Record(Event("terminal", decision, {}))
  /\ UNCHANGED <<agent, observed, config, typing, steps, actionHistory, decision, iterations,
                 counters, lastCalls, lastCapture, iterStart>>

\* variant of ReturnDone: the steps reported are the steps completed before
\* the terminal one
ReturnDone_Completed ==
  /\ pc = "handle"
  /\ decision.action = "done"
  /\ Return(ExecutionResult(TRUE, decision.reasoning, steps - 1), "done")
  /\ lastOutcome' = "done"
  /\ Record(Event("terminal", decision, {}))
  /\ UNCHANGED <<agent, observed, config, typing, steps, actionHistory, decision, iterations,
                 counters, lastCalls, lastCapture, iterStart>>

\* variant of ReturnDone: a 'done' received on the last budgeted step is
\* reported as a timeout
ReturnDone_BudgetFirst ==
  /\ pc = "handle"
  /\ decision.action = "done"
  /\ IF steps < maxSteps
       THEN Return(ExecutionResult(TRUE, decision.reasoning, steps), "done")
       ELSE Return(ExecutionResult(FALSE, TimeoutReason, steps), "timeout")
  /\ lastOutcome' = "done"
  /\ Record(Event("terminal", decision, {}))
  /\ UNCHANGED <<agent, observed, config, typing, steps, actionHistory, decision, iterations,
                 counters, lastCalls, lastCapture, iterStart>>

\* variant of ReturnDone: 'done' is honoured only at progress 100, otherwise
\* the loop goes on
ReturnDone_NeedsFullProgress ==
  /\ pc = "handle"
  /\ decision.action = "done"
  /\ IF decision.progress = 100
       THEN Return(ExecutionResult(TRUE, decision.reasoning, steps), "done")
       ELSE pc' = "loop" /\ UNCHANGED <<results, exit>>
  /\ lastOutcome' = "done"
  /\ Record(Event("terminal", decision, {}))
  /\ UNCHANGED <<agent, observed, config, typing, steps, actionHistory, decision, iterations,
                 counters, lastCalls, lastCapture, iterStart>>

\* variant of ReturnDone: the terminal decision is pushed to the history
\* like any other action
ReturnDone_Recorded ==
  /\ pc = "handle"
  /\ decision.action = "done"
  /\ actionHistory' = Append(actionHistory, formatAction(decision))
  /\ Return(ExecutionResult(TRUE, decision.reasoning, steps), "done")
  /\ lastOutcome' = "done"
  /\ Record(Event("terminal", decision, {}))
  /\ UNCHANGED <<agent, observed, config, typing, steps, decision, iterations, counters,
                 lastCalls, lastCapture, iterStart>>

\* if (decision.action === 'done') return { success: true, ... }
ReturnDone ==
  /\ pc = "handle"
  /\ decision.action = "done"
  /\ Return(ExecutionResult(TRUE, decision.reasoning, steps), "done")
  /\ lastOutcome' = "done"
  /\ Record(Event("terminal", decision, {}))
  /\ UNCHANGED <<agent, observed, config, typing, steps, actionHistory, decision, iterations, counters,
                 lastCalls, lastCapture, iterStart>>

\* variant of ReturnFailed: the result carries success: true
ReturnFailed_Success ==
  /\ pc = "handle"
  /\ decision.action = "failed"
  /\ Return(ExecutionResult(TRUE, decision.reasoning, steps), "failed")
  /\ lastOutcome' = "failed"
  /\ Record(Event("terminal", decision, {}))
  /\ UNCHANGED <<agent, observed, config, typing, steps, actionHistory, decision, iterations,
                 counters, lastCalls, lastCapture, iterStart>>

\* if (decision.action === 'failed') return { success: false, ... }
ReturnFailed ==
  /\ pc = "handle"
  /\ decision.action = "failed"
  /\ Return(ExecutionResult(FALSE, decision.reasoning, steps), "failed")
  /\ lastOutcome' = "failed"
  /\ Record(Event("terminal", decision, {}))
  /\ UNCHANGED <<agent, observed, config, typing, steps, actionHistory, decision, iterations, counters,
                 lastCalls, lastCapture, iterStart>>

\* variant of ActOk: the action kind is pushed instead of the summary
ActOk_PushKind ==
  /\ pc = "handle"
  /\ decision.action \notin {"done", "failed"}
  /\ \E failing \in SUBSET {1, 2} :
       LET r == executeAction(decision, failing) IN
       /\ ~r.threw
       /\ lastCalls' = r.calls
       /\ Record(Event("acted", decision, failing \cap (1..Len(r.calls))))
  /\ dispatches' = dispatches + 1
  /\ actionHistory' = Append(actionHistory, decision.action)
  /\ lastOutcome' = "acted"
  /\ pc' = "loop"
  /\ UNCHANGED <<agent, observed, config, typing, steps, decision, results, exit, iterations,
                 launchCalls, captureCalls, captureFails, decideCalls,
                 decideFails, lastCapture, iterStart>>

\* executeAction resolves: push the summary, sleep, next iteration
ActOk ==
  /\ pc = "handle"
  /\ decision.action \notin {"done", "failed"}
  /\ \E failing \in SUBSET {1, 2} :
       LET r == executeAction(decision, failing) IN
       /\ ~r.threw
       /\ lastCalls' = r.calls
       /\ Record(Event("acted", decision, failing \cap (1..Len(r.calls))))
  /\ dispatches' = dispatches + 1
  /\ actionHistory' = Append(actionHistory, formatAction(decision))
  /\ lastOutcome' = "acted"
  /\ pc' = "loop"
  /\ UNCHANGED <<agent, observed, config, typing, steps, decision, results, exit, iterations,
                 launchCalls, captureCalls, captureFails, decideCalls,
                 decideFails, lastCapture, iterStart>>

\* variant of ActError: the summary is pushed before executeAction is
\* awaited, and 'error' is pushed as well when it throws
ActError_DoublePush ==
  /\ pc = "handle"
  /\ decision.action \notin {"done", "failed"}
  /\ \E failing \in SUBSET {1, 2} :
       LET r == executeAction(decision, failing) IN
       /\ r.threw
       /\ lastCalls' = r.calls
       /\ Record(Event("acted", decision, failing \cap (1..Len(r.calls))))
  /\ dispatches' = dispatches + 1
  /\ actionHistory' = actionHistory \o <<formatAction(decision), "error">>
  /\ lastOutcome' = "actError"
  /\ pc' = "loop"
  /\ UNCHANGED <<agent, observed, config, typing, steps, decision, results, exit, iterations,
                 launchCalls, captureCalls, captureFails, decideCalls,
                 decideFails, lastCapture, iterStart>>

\* variant of ActError: the error is thrown on to the caller of execute()
ActError_Rethrow ==
  /\ pc = "handle"
  /\ decision.action \notin {"done", "failed"}
  /\ \E failing \in SUBSET {1, 2} :
       LET r == executeAction(decision, failing) IN
       /\ r.threw
       /\ lastCalls' = r.calls
       /\ Record(Event("acted", decision, failing \cap (1..Len(r.calls))))
  /\ dispatches' = dispatches + 1
  /\ lastOutcome' = "actError"
  /\ pc' = "raised"
  /\ UNCHANGED <<agent, observed, config, typing, steps, actionHistory, decision, results,
                 exit, iterations, launchCalls, captureCalls, captureFails,
                 decideCalls, decideFails, lastCapture, iterStart>>

\* variant of ActError: 'error' is written over the latest entry
ActError_Overwrites ==
  /\ pc = "handle"
  /\ decision.action \notin {"done", "failed"}
  /\ \E failing \in SUBSET {1, 2} :
       LET r == executeAction(decision, failing) IN
       /\ r.threw
       /\ lastCalls' = r.calls
       /\ Record(Event("acted", decision, failing \cap (1..Len(r.calls))))
  /\ dispatches' = dispatches + 1
  /\ actionHistory' = [actionHistory EXCEPT ![Len(actionHistory)] = "error"]
  /\ lastOutcome' = "actError"
  /\ pc' = "loop"
  /\ UNCHANGED <<agent, observed, config, typing, steps, decision, results, exit, iterations,
                 launchCalls, captureCalls, captureFails, decideCalls,
                 decideFails, lastCapture, iterStart>>

\* executeAction throws: warn, push 'error', sleep, next iteration
ActError ==
  /\ pc = "handle"
  /\ decision.action \notin {"done", "failed"}
  /\ \E failing \in SUBSET {1, 2} :
       LET r == executeAction(decision, failing) IN
       /\ r.threw
       /\ lastCalls' = r.calls
       /\ Record(Event("acted", decision, failing \cap (1..Len(r.calls))))
  /\ dispatches' = dispatches + 1
  /\ actionHistory' = Append(actionHistory, "error")
  /\ lastOutcome' = "actError"
  /\ pc' = "loop"
  /\ UNCHANGED <<agent, observed, config, typing, steps, decision, results, exit, iterations,
                 launchCalls, captureCalls, captureFails, decideCalls,
                 decideFails, lastCapture, iterStart>>

\* variant of Timeout: the steps reported exclude the iterations lost to
\* capture and decision failures
Timeout_LogicalSteps ==
  /\ pc = "loop"
  /\ ~(steps < maxSteps)
  /\ Return(ExecutionResult(FALSE, TimeoutReason,
                            steps - captureFails - decideFails), "timeout")
  /\ UNCHANGED <<trace, agent, observed, config, typing, steps, actionHistory, decision, iterations,
                 counters, lastCalls, lastCapture, iterStart, lastOutcome>>

\* the while condition fails: return the timeout result
Timeout ==
  /\ pc = "loop"
  /\ ~(steps < maxSteps)
  /\ Return(ExecutionResult(FALSE, TimeoutReason, steps), "timeout")
  /\ UNCHANGED <<trace, agent, observed, config, typing, steps, actionHistory, decision, iterations, counters,
                 lastCalls, lastCapture, iterStart, lastOutcome>>

Next ==
  \/ LaunchOk
  \/ LaunchFail
  \/ SkipLaunch
  \/ BeginStep
  \/ CaptureOk
  \/ CaptureFail
  \/ DecideOk
  \/ DecideFail
  \/ ReturnDone
  \/ ReturnFailed
  \/ ActOk
  \/ ActError
  \/ Timeout

Spec == Init /\ [][Next]_vars

\* every external call and every pause of execute() returns, so a run that
\* can take a step eventually takes one
FairSpec == Spec /\ WF_vars(Next)

\* the runs of Spec with a budget of at most MaxTraceSteps that log the
\* outcomes of their external calls
TraceInit ==
  /\ hasBundleId \in BOOLEAN
  /\ maxSteps \in 0..MaxTraceSteps
  /\ pc = "launch"
  /\ steps = 0
  /\ actionHistory = <<>>
  /\ decision = NoDecision
  /\ results = <<>>
  /\ exit = "none"
  /\ iterations = 0
  /\ launchCalls = 0
  /\ captureCalls = 0
  /\ captureFails = 0
  /\ decideCalls = 0
  /\ decideFails = 0
  /\ dispatches = 0
  /\ lastCalls = <<>>
  /\ lastCapture = 0
  /\ lastOutcome = "none"
  /\ launchError = ""
  /\ terminalSeen = FALSE
  /\ stuckWarning = Absent
  /\ decideError = ""
  /\ context = NoContext
  /\ conversationHistory = <<>>
  /\ sent = <<>>
  /\ text = ""
  /\ chunkSize = 0
  /\ remaining = ""
  /\ chunks = <<>>
  /\ typed = <<>>
  /\ recording = TRUE
  /\ trace = <<>>
  /\ iterStart = Snapshot

TraceSpec == TraceInit /\ [][Next]_vars

(***************************************************************************)
(* The stuck-pattern detector on its own: detectStuckPattern applied to a  *)
(* history drawn from the entries below.                                   *)
(***************************************************************************)
\* history entries: markers, summaries formatAction produces, 'error'
ProbeEntries ==
  {"ready", "error", "scroll", "tap", "tap(10,10)", "tap(20,20)",
   "tapText(\"OK\")", "doubleTap(50,50)", "longPress(50,50)"}

\* the sequences over S of length at most n
RECURSIVE SeqsUpTo(_, _)
SeqsUpTo(S, n) ==
  IF n = 0 THEN {<<>>}
  ELSE LET shorter == SeqsUpTo(S, n - 1)
       IN shorter \cup {Append(h, e) : h \in shorter, e \in S}

ProbeInit ==
  /\ hasBundleId = FALSE
  /\ maxSteps = 0
  /\ pc = "probe"
  /\ steps = 0
  /\ actionHistory \in SeqsUpTo(ProbeEntries, MaxProbeLen)
  /\ decision = NoDecision
  /\ results = <<>>
  /\ exit = "none"
  /\ iterations = 0
  /\ launchCalls = 0
  /\ captureCalls = 0
  /\ captureFails = 0
  /\ decideCalls = 0
  /\ decideFails = 0
  /\ dispatches = 0
  /\ lastCalls = <<>>
  /\ lastCapture = 0
  /\ lastOutcome = "none"
  /\ launchError = ""
  /\ terminalSeen = FALSE
  /\ stuckWarning = Absent
  /\ decideError = ""
  /\ context = NoContext
  /\ conversationHistory = <<>>
  /\ sent = <<>>
  /\ text = ""
  /\ chunkSize = 0
  /\ remaining = ""
  /\ chunks = <<>>
  /\ typed = <<>>
  /\ recording = FALSE
  /\ trace = <<>>
  /\ iterStart = Snapshot

\* const stuckWarning = this.detectStuckPattern(context.actionHistory)
Detect ==
  /\ pc = "probe"
  /\ stuckWarning' = detectStuckPattern(actionHistory)
  /\ pc' = "probed"
  /\ UNCHANGED <<trace, decideError, context, conversationHistory, sent, observed, config, typing, steps, actionHistory, decision,
                 results, exit, iterations, counters, lastCalls, lastCapture,
                 iterStart, lastOutcome>>

DetectorNext == Detect

DetectorSpec == ProbeInit /\ [][DetectorNext]_vars

(***************************************************************************)
(* The loop taken up after the second step of a run without a target app   *)
(* whose first two steps dispatched the same action successfully.          *)
(***************************************************************************)
\* the decisions dispatched twice before the run is taken up
RepeatedDecisions ==
  {d \in Decisions :
     /\ d.action \in {"tap", "scroll"}
     /\ d.reasoning = "goal visible on screen"
     /\ d.progress = 40}

ResumedInit ==
  /\ hasBundleId = FALSE
  /\ maxSteps = 2 + MaxResumedSteps
  /\ pc = "loop"
  /\ steps = 2
  /\ \E d \in RepeatedDecisions :
       /\ decision = d
       /\ actionHistory = <<"ready", formatAction(d), formatAction(d)>>
       /\ lastCalls = executeAction(d, {}).calls
       /\ trace = <<Event("skipLaunch", NoDecision, {}),
                    Event("acted", d, {}), Event("acted", d, {})>>
       /\ iterStart = [steps |-> 1, history |-> <<"ready", formatAction(d)>>,
                       decideCalls |-> 1, dispatches |-> 1, captureCalls |-> 1,
                       lastCapture |-> 1, lastOutcome |-> "acted"]
       /\ context = AgentContext(2, maxSteps, <<"ready", formatAction(d)>>)
  /\ results = <<>>
  /\ exit = "none"
  /\ iterations = 2
  /\ launchCalls = 0
  /\ captureCalls = 2
  /\ captureFails = 0
  /\ decideCalls = 2
  /\ decideFails = 0
  /\ dispatches = 2
  /\ lastCapture = 2
  /\ lastOutcome = "acted"
  /\ launchError = ""
  /\ terminalSeen = FALSE
  /\ stuckWarning = Absent
  /\ decideError = ""
  /\ conversationHistory = <<"user", "assistant", "user", "assistant">>
  /\ sent = <<"user", "assistant", "user">>
  /\ text = ""
  /\ chunkSize = 0
  /\ remaining = ""
  /\ chunks = <<>>
  /\ typed = <<>>
  /\ recording = TRUE

\* the body of the while loop and its exits
LoopNext ==
  \/ BeginStep
  \/ CaptureOk
  \/ CaptureFail
  \/ DecideOk
  \/ DecideFail
  \/ ReturnDone
  \/ ReturnFailed
  \/ ActOk
  \/ ActError
  \/ Timeout

ResumedSpec == ResumedInit /\ [][LoopNext]_vars

(***************************************************************************)
(* The TaskAgent on its own: decide() called up to MaxDecideCalls times on *)
(* one agent, each call resolving or throwing, and reset().                *)
(***************************************************************************)
AgentInit ==
  /\ hasBundleId = FALSE
  /\ maxSteps = MaxDecideCalls
  /\ pc = "idle"
  /\ steps = 0
  /\ actionHistory = <<"ready">>
  /\ decision = NoDecision
  /\ results = <<>>
  /\ exit = "none"
  /\ iterations = 0
  /\ launchCalls = 0
  /\ captureCalls = 0
  /\ captureFails = 0
  /\ decideCalls = 0
  /\ decideFails = 0
  /\ dispatches = 0
  /\ lastCalls = <<>>
  /\ lastCapture = 0
  /\ lastOutcome = "none"
  /\ launchError = ""
  /\ terminalSeen = FALSE
  /\ stuckWarning = Absent
  /\ decideError = ""
  /\ context = NoContext
  /\ conversationHistory = <<>>
  /\ sent = <<>>
  /\ text = ""
  /\ chunkSize = 0
  /\ remaining = ""
  /\ chunks = <<>>
  /\ typed = <<>>
  /\ recording = FALSE
  /\ trace = <<>>
  /\ iterStart = Snapshot

\* decide() up to await generateText(...)
AgentDecide ==
  /\ pc = "idle"
  /\ decideCalls < MaxDecideCalls
  /\ decideCalls' = decideCalls + 1
  /\ stuckWarning' = detectStuckPattern(actionHistory)
  /\ context' = AgentContext(decideCalls + 1, maxSteps, actionHistory)
  /\ conversationHistory' = WithUserMessage(conversationHistory)
  /\ sent' = conversationHistory'
  /\ pc' = "awaiting"
  /\ UNCHANGED <<trace, decideError, observed, config, typing, steps, actionHistory,
                 decision, results, exit, iterations, launchCalls, captureCalls,
                 captureFails, decideFails, dispatches, lastCalls, lastCapture,
                 iterStart, lastOutcome>>

\* generateText resolves and the response parses: decide() returns
AgentResolve ==
  /\ pc = "awaiting"
  /\ \E d \in Decisions : decision' = d
  /\ conversationHistory' = WithAssistantMessage(conversationHistory)
  /\ pc' = "idle"
  /\ UNCHANGED <<trace, stuckWarning, decideError, context, sent, observed, config,
                 typing, steps, actionHistory, results, exit, iterations, counters,
                 lastCalls, lastCapture, iterStart, lastOutcome>>

\* decide() throws: generateText rejects, or the response holds no JSON
AgentReject ==
  /\ pc = "awaiting"
  /\ decideFails' = decideFails + 1
  /\ \E msg \in DecideErrors :
       /\ decideError' = msg
       /\ conversationHistory' =
            IF msg = "generateText failed" THEN conversationHistory
            ELSE WithAssistantMessage(conversationHistory)
  /\ pc' = "idle"
  /\ UNCHANGED <<trace, stuckWarning, context, sent, observed, config, typing, steps,
                 actionHistory, decision, results, exit, iterations, launchCalls,
                 captureCalls, captureFails, decideCalls, dispatches, lastCalls,
                 lastCapture, iterStart, lastOutcome>>

\* reset()
AgentReset ==
  /\ pc = "idle"
  /\ conversationHistory # <<>>
  /\ conversationHistory' = <<>>
  /\ UNCHANGED <<trace, stuckWarning, decideError, context, sent, observed, config,
                 typing, pc, steps, actionHistory, decision, results, exit, iterations,
                 counters, lastCalls, lastCapture, iterStart, lastOutcome>>

AgentNext ==
  \/ AgentDecide
  \/ AgentResolve
  \/ AgentReject
  \/ AgentReset

AgentSpec == AgentInit /\ [][AgentNext]_vars

(***************************************************************************)
(* The action translator on its own: the dispatch of the first iteration   *)
(* of a run, for a decision of any kind with any of its parameters absent  *)
(* or present.                                                             *)
(***************************************************************************)
\* values of a numeric parameter; 0 is a value `??` keeps
NumChoices == {Absent, Some(0), Some(80)}

\* values of a text parameter; '' is present and falsy
TextChoices == {Absent, Some(""), Some("OK")}

\* the action kinds of AgentDecision that are dispatched
DispatchedKinds ==
  {"tap", "tapText", "doubleTap", "longPress", "inputText", "eraseText",
   "scroll", "swipe", "back", "hideKeyboard", "openLink", "pressKey", "wait",
   "launchApp", "stopApp"}

\* kinds the oracle's JSON may carry that are not in the vocabulary
UnknownKinds == {"pinch", "Tap", "", "error"}

\* the params objects explored for an action kind
ParamsFor(a) ==
  CASE a \in {"tap", "doubleTap"} ->
         {[NoFields EXCEPT !.x = x, !.y = y] : x \in NumChoices, y \in NumChoices}
    [] a = "longPress" ->
         {[NoFields EXCEPT !.x = x, !.y = y, !.text = t] :
            x \in NumChoices, y \in {Absent, Some(80)}, t \in TextChoices}
    [] a \in {"tapText", "inputText"} ->
         {[NoFields EXCEPT !.text = t] :
            t \in TextChoices \cup {Some("a text of more than twenty characters")}}
    [] a = "eraseText" -> {[NoFields EXCEPT !.chars = n] : n \in NumChoices}
    [] a = "swipe" ->
         {[NoFields EXCEPT !.startX = sx, !.startY = sy, !.endX = ex, !.endY = ey] :
            sx \in {Absent, Some(0)}, sy \in {Absent, Some(80)},
            ex \in {Absent, Some(80)}, ey \in {Absent, Some(0)}}
    [] a = "openLink" ->
         {[NoFields EXCEPT !.url = u] : u \in {Absent, Some(""), Some("https://example.com")}}
    [] a = "pressKey" -> {[NoFields EXCEPT !.key = k] : k \in {Absent, Some("home")}}
    [] a = "wait" -> {[NoFields EXCEPT !.timeout = t] : t \in {Absent, Some(0), Some(500)}}
    [] a \in {"launchApp", "stopApp"} ->
         {[NoFields EXCEPT !.appId = i] : i \in {Absent, Some(""), Some("com.example.app")}}
    [] OTHER -> {NoFields, [NoFields EXCEPT !.x = Some(80), !.appId = Some("com.example.app")]}

\* non-terminal decisions: without a params object, or with one of ParamsFor
TranslatorDecisions ==
  LET kinds == DispatchedKinds \cup UnknownKinds IN
  { [action |-> a, hasParams |-> FALSE, params |-> NoFields,
     reasoning |-> "goal visible on screen", progress |-> 40] : a \in kinds }
  \cup
  UNION { { [action |-> a, hasParams |-> TRUE, params |-> p,
             reasoning |-> "goal visible on screen", progress |-> 40] :
              p \in ParamsFor(a) } : a \in kinds }

\* the state of a run, started without a target app and with a budget of
\* two steps, when the decision of its first iteration has been received
TranslatorInit ==
  /\ hasBundleId = FALSE
  /\ maxSteps = 2
  /\ pc = "handle"
  /\ steps = 1
  /\ actionHistory = <<"ready">>
  /\ decision \in TranslatorDecisions
  /\ results = <<>>
  /\ exit = "none"
  /\ iterations = 1
  /\ launchCalls = 0
  /\ captureCalls = 1
  /\ captureFails = 0
  /\ decideCalls = 1
  /\ decideFails = 0
  /\ dispatches = 0
  /\ lastCalls = <<>>
  /\ lastCapture = 1
  /\ lastOutcome = "none"
  /\ launchError = ""
  /\ terminalSeen = FALSE
  /\ stuckWarning = Absent
  /\ decideError = ""
  /\ context = AgentContext(1, 2, <<"ready">>)
  /\ conversationHistory = <<"user", "assistant">>
  /\ sent = <<"user">>
  /\ text = ""
  /\ chunkSize = 0
  /\ remaining = ""
  /\ chunks = <<>>
  /\ typed = <<>>
  /\ recording = TRUE
  /\ trace = <<Event("skipLaunch", NoDecision, {})>>
  /\ iterStart = [steps |-> 0, history |-> <<"ready">>, decideCalls |-> 0,
                  dispatches |-> 0, captureCalls |-> 0, lastCapture |-> 0,
                  lastOutcome |-> "none"]

\* try { await this.executeAction(decision); ... } catch { ... }, then the
\* next iteration up to its decide() call
TranslatorNext ==
  \/ ActOk
  \/ ActError
  \/ BeginStep
  \/ CaptureOk

TranslatorSpec == TranslatorInit /\ [][TranslatorNext]_vars

(***************************************************************************)
(* MaestroClient.inputLongText and smartChunk, for a text over the         *)
(* characters below and a chunkSize of at least 1.                         *)
(***************************************************************************)
\* a letter and the two characters smartChunk looks for
Alphabet == {"a", " ", "."}

\* the strings over Alphabet of length at most n
RECURSIVE StringsUpTo(_)
StringsUpTo(n) ==
  IF n = 0 THEN {""}
  ELSE LET shorter == StringsUpTo(n - 1)
       IN shorter \cup {s \o c : s \in shorter, c \in Alphabet}

Min(a, b) == IF a <= b THEN a ELSE b

\* s.lastIndexOf(pat, from): the largest 0-based index <= from at which pat
\* occurs in s, or -1
LastIndexOf(s, pat, from) ==
  LET found == {i \in 0..Min(from, Len(s) - Len(pat)) :
                  SubSeq(s, i + 1, i + Len(pat)) = pat}
  IN IF found = {} THEN -1
     ELSE CHOOSE i \in found : \A j \in found : j <= i

\* s.slice(0, n)
SliceTo(s, n) == SubSeq(s, 1, Min(n, Len(s)))

\* s.slice(n)
SliceFrom(s, n) == SubSeq(s, Min(n, Len(s)) + 1, Len(s))

\* the breakPoint smartChunk computes for a remaining text longer than
\* maxSize
BreakPoint(rest, maxSize) ==
  LET sentence == LastIndexOf(rest, ". ", maxSize)
      space == LastIndexOf(rest, " ", maxSize)
      found == IF sentence # -1 THEN sentence ELSE space
  IN IF found = -1 THEN maxSize ELSE found + 1

ChunkInit ==
  /\ hasBundleId = FALSE
  /\ maxSteps = 0
  /\ pc = "input"
  /\ steps = 0
  /\ actionHistory = <<>>
  /\ decision = NoDecision
  /\ results = <<>>
  /\ exit = "none"
  /\ iterations = 0
  /\ launchCalls = 0
  /\ captureCalls = 0
  /\ captureFails = 0
  /\ decideCalls = 0
  /\ decideFails = 0
  /\ dispatches = 0
  /\ lastCalls = <<>>
  /\ lastCapture = 0
  /\ lastOutcome = "none"
  /\ launchError = ""
  /\ terminalSeen = FALSE
  /\ stuckWarning = Absent
  /\ decideError = ""
  /\ context = NoContext
  /\ conversationHistory = <<>>
  /\ sent = <<>>
  /\ text \in StringsUpTo(MaxTextLen)
  /\ chunkSize \in 1..MaxChunkSize
  /\ remaining = ""
  /\ chunks = <<>>
  /\ typed = <<>>
  /\ recording = FALSE
  /\ trace = <<>>
  /\ iterStart = Snapshot

\* everything but the state of inputLongText
untyped ==
  <<trace, agent, observed, config, steps, actionHistory, decision, results, exit,
    iterations, counters, lastCalls, lastCapture, iterStart, lastOutcome>>

\* if (text.length <= chunkSize) return this.inputText(text), which
\* resolves or throws
InputShort ==
  /\ pc = "input"
  /\ Len(text) <= chunkSize
  /\ typed' = Append(typed, text)
  /\ \E ok \in BOOLEAN : pc' = IF ok THEN "typedAll" ELSE "typeFailed"
  /\ UNCHANGED <<untyped, text, chunkSize, remaining, chunks>>

\* smartChunk is entered: const chunks = []; let remaining = text
StartChunking ==
  /\ pc = "input"
  /\ Len(text) > chunkSize
  /\ remaining' = text
  /\ chunks' = <<>>
  /\ pc' = "chunking"
  /\ UNCHANGED <<untyped, text, chunkSize, typed>>

\* variant of ChunkStep: the rest starts after the character at breakPoint
ChunkStep_SkipsOne ==
  /\ pc = "chunking"
  /\ Len(remaining) > 0
  /\ IF Len(remaining) <= chunkSize
       THEN /\ chunks' = Append(chunks, remaining)
            /\ pc' = "sending"
            /\ UNCHANGED remaining
       ELSE LET breakPoint == BreakPoint(remaining, chunkSize) IN
            /\ chunks' = Append(chunks, SliceTo(remaining, breakPoint))
            /\ remaining' = SliceFrom(remaining, breakPoint + 1)
            /\ UNCHANGED pc
  /\ UNCHANGED <<untyped, text, chunkSize, typed>>

\* one iteration of while (remaining.length > 0)
ChunkStep ==
  /\ pc = "chunking"
  /\ Len(remaining) > 0
  /\ IF Len(remaining) <= chunkSize
       THEN /\ chunks' = Append(chunks, remaining)
            /\ pc' = "sending"
            /\ UNCHANGED remaining
       ELSE LET breakPoint == BreakPoint(remaining, chunkSize) IN
            /\ chunks' = Append(chunks, SliceTo(remaining, breakPoint))
            /\ remaining' = SliceFrom(remaining, breakPoint)
            /\ UNCHANGED pc
  /\ UNCHANGED <<untyped, text, chunkSize, typed>>

\* the while condition fails: return chunks
ChunkingDone ==
  /\ pc = "chunking"
  /\ Len(remaining) = 0
  /\ pc' = "sending"
  /\ UNCHANGED <<untyped, typing>>

\* await this.inputText(chunks[i]), which resolves or throws
SendChunk ==
  /\ pc = "sending"
  /\ Len(typed) < Len(chunks)
  /\ typed' = Append(typed, chunks[Len(typed) + 1])
  /\ \E ok \in BOOLEAN : pc' = IF ok THEN "sending" ELSE "typeFailed"
  /\ UNCHANGED <<untyped, text, chunkSize, remaining, chunks>>

\* i < chunks.length fails: inputLongText resolves
SendDone ==
  /\ pc = "sending"
  /\ Len(typed) = Len(chunks)
  /\ pc' = "typedAll"
  /\ UNCHANGED <<untyped, typing>>

ChunkNext ==
  \/ InputShort
  \/ StartChunking
  \/ ChunkStep
  \/ ChunkingDone
  \/ SendChunk
  \/ SendDone

\* every inputText call returns, so inputLongText keeps taking steps
ChunkSpec == ChunkInit /\ [][ChunkNext]_vars /\ WF_vars(ChunkNext)

(***************************************************************************)
(* Properties of the control loop.                                         *)
(***************************************************************************)
Terminal == {"done", "failed"}

\* history entries appended after the initial 'launched'/'ready' marker
Appended == IF actionHistory = <<>> THEN 0 ELSE Len(actionHistory) - 1

\* the result of a run that has returned
Result == results[1]

\* C1: the step counter starts at 0, is one larger after every loop body
\* entered whatever the outcome of that iteration (so it always equals the
\* number of iterations begun), never decreases, and never exceeds maxSteps.
C1_StepCounter ==
  /\ steps = 0
  /\ [](steps = iterations /\ steps >= 0 /\ steps <= maxSteps)
  /\ [][/\ steps' >= steps
        /\ (iterations' = iterations + 1 => steps' = steps + 1)
        /\ (iterations' = iterations => steps' = steps)]_vars

\* a run in which a capture failure, a decision failure and a failed
\* dispatch have each used up a step
C1_Witness ==
  /\ steps = 3
  /\ captureFails = 1
  /\ decideFails = 1
  /\ lastOutcome = "actError"
  /\ pc = "loop"

\* C2: a run that got past Init ends through exactly one of a 'done'
\* decision, a 'failed' decision, or the step counter reaching maxSteps;
\* exactly one ExecutionResult is produced, and once it is produced no
\* further launch, capture, oracle or dispatch call is made.
C2_OneExit ==
  /\ [](Len(results) <= 1 /\ (pc = "returned" <=> Len(results) = 1))
  /\ [](pc = "returned" /\ actionHistory # <<>> =>
          /\ exit \in {"done", "failed", "timeout"}
          /\ exit = "done" <=> decision.action = "done"
          /\ exit = "failed" <=> decision.action = "failed"
          /\ exit = "timeout" <=> (steps = maxSteps /\ decision.action \notin Terminal))
  /\ [][results # <<>> => UNCHANGED <<results, counters, actionHistory, steps>>]_vars

\* a run ended by a 'done' decision after it had made calls of every kind
C2_Witness ==
  /\ pc = "returned"
  /\ exit = "done"
  /\ Len(results) = 1
  /\ launchCalls = 1
  /\ dispatches >= 1
  /\ steps < maxSteps

\* C3: with a positive maxSteps the final steps value lies in 0..maxSteps
\* and is 0 exactly when the run ended on a launch failure.
C3_FinalSteps ==
  pc = "returned" /\ maxSteps >= 1 =>
    /\ Result.steps \in 0..maxSteps
    /\ Result.steps = 0 <=> launchError # ""

\* a run ended by a 'done' decision on its first step
C3_Witness ==
  /\ pc = "returned"
  /\ maxSteps >= 1
  /\ exit = "done"
  /\ Result.steps = 1
  /\ launchError = ""

\* C4: the number of history entries appended after the initial marker
\* never exceeds the step counter.
C4_HistoryWithinSteps == Appended <= steps

\* every step so far has appended an entry, one of them 'error'
C4_Witness ==
  /\ steps >= 2
  /\ Appended = steps
  /\ lastOutcome = "actError"

\* C5 as stated: at termination by 'done', 'failed' or timeout the appended
\* entries equal the final steps minus the capture and decision failures.
C5_Original ==
  pc = "returned" /\ exit \in {"done", "failed", "timeout"} =>
    Appended = Result.steps - captureFails - decideFails

\* C5 amended: at termination the appended entries equal the final steps
\* minus the capture and decision failures, minus one more when the run
\* ended on a 'done' or 'failed' decision (the terminal step appends
\* nothing).
C5_HistoryAtTermination ==
  pc = "returned" /\ exit \in {"done", "failed", "timeout"} =>
    Appended = Result.steps - captureFails - decideFails
                 - (IF exit \in Terminal THEN 1 ELSE 0)

\* a run ended by 'done' after a capture failure, a decision failure and at
\* least one dispatched action
C5_Witness ==
  /\ pc = "returned"
  /\ exit = "done"
  /\ captureFails >= 1
  /\ decideFails >= 1
  /\ Appended >= 1

\* C6: when the launch of the configured app fails, the run ends at once
\* with success=false, steps=0 and the launch error's message as reason; no
\* capture, oracle call or dispatch is ever made and no marker is appended.
C6_LaunchFailure ==
  launchError # "" =>
    /\ hasBundleId
    /\ pc = "returned"
    /\ results = <<ExecutionResult(FALSE, launchError, 0)>>
    /\ captureCalls = 0
    /\ decideCalls = 0
    /\ dispatches = 0
    /\ iterations = 0
    /\ actionHistory = <<>>

\* the launch was called once and threw
C6_Witness ==
  /\ launchError \in LaunchErrors
  /\ launchCalls = 1
  /\ exit = "launchFail"

\* C7: success is true exactly when the run ended on a 'done' decision;
\* 'failed', timeout and launch failure all give success=false.
C7_SuccessIffDone ==
  pc = "returned" =>
    /\ Result.success <=> decision.action = "done"
    /\ Result.success <=> exit = "done"
    /\ exit \in {"failed", "timeout", "launchFail"} => ~Result.success

\* a run ended by a 'failed' decision
C7_Witness ==
  /\ pc = "returned"
  /\ decision.action = "failed"
  /\ ~Result.success
  /\ dispatches >= 1

\* C8: a run past Init in which no 'done' or 'failed' decision was received
\* returns success=false, the fixed timeout reason and steps = maxSteps,
\* after exactly maxSteps iterations.
C8_Timeout ==
  pc = "returned" /\ actionHistory # <<>> /\ ~terminalSeen =>
    /\ results = <<ExecutionResult(FALSE, TimeoutReason, maxSteps)>>
    /\ iterations = maxSteps

\* a timeout after a mix of capture failures, decision failures, failed and
\* successful dispatches
C8_Witness ==
  /\ pc = "returned"
  /\ ~terminalSeen
  /\ exit = "timeout"
  /\ maxSteps >= 3
  /\ captureFails >= 1
  /\ decideFails >= 1
  /\ Appended >= 1

\* C9: when the first terminal decision arrives in iteration k, the result's
\* steps is k (iterations lost to capture and decision failures included),
\* also for k = maxSteps, where 'done' gives success=true and not a timeout.
C9_TerminalAtK ==
  pc = "returned" /\ terminalSeen =>
    /\ Result.steps = iterations
    /\ Result.success = (decision.action = "done")
    /\ Result.reason = decision.reasoning
    /\ exit # "timeout"

\* tap on step 1, 'done' on step 2, the last budgeted step
C9_Witness ==
  /\ pc = "returned"
  /\ ~hasBundleId
  /\ maxSteps = 2
  /\ actionHistory = <<"ready", "tap(80,80)">>
  /\ decision.action = "done"
  /\ Result.success
  /\ Result.steps = 2

\* C10: an iteration whose screen capture fails uses up one step, appends
\* nothing to the history, makes no oracle call and no dispatch, produces no
\* result, and leaves the loop at its head, where the next iteration or the
\* timeout follows.
C10_CaptureFailure ==
  /\ [][captureFails' # captureFails =>
          /\ steps' = steps
          /\ steps = iterStart.steps + 1
          /\ actionHistory' = actionHistory
          /\ actionHistory = iterStart.history
          /\ decideCalls' = decideCalls
          /\ decideCalls = iterStart.decideCalls
          /\ dispatches' = dispatches
          /\ dispatches = iterStart.dispatches
          /\ results' = <<>>
          /\ pc' = "loop"]_vars
  /\ [](pc = "loop" /\ lastOutcome = "captureFail" =>
          /\ results = <<>>
          /\ steps < maxSteps => ENABLED BeginStep
          /\ steps >= maxSteps => ENABLED Timeout)

\* a capture failure on the last budgeted step, after an earlier dispatch
C10_Witness ==
  /\ pc = "loop"
  /\ lastOutcome = "captureFail"
  /\ steps = maxSteps
  /\ Appended >= 1

\* C11 as stated: the capture request that follows a failed capture carries
\* the same step index as the failed one, and the failed attempt is not
\* counted as a consumed step.
C11_Original ==
  pc = "capture" /\ iterStart.lastOutcome = "captureFail" =>
    /\ lastCapture = iterStart.lastCapture
    /\ steps = iterStart.lastCapture

\* C11 amended: the capture request that follows a failed capture carries
\* the step index of the failed one plus one, and the failed attempt stays
\* counted in the step counter.
C11_NextIndexAfterCaptureFailure ==
  pc = "capture" /\ iterStart.lastOutcome = "captureFail" =>
    /\ lastCapture = iterStart.lastCapture + 1
    /\ lastCapture = steps
    /\ iterStart.steps = iterStart.lastCapture

\* a capture is requested right after a failed capture
C11_Witness ==
  /\ pc = "capture"
  /\ iterStart.lastOutcome = "captureFail"
  /\ iterStart.lastCapture >= 1
  /\ captureCalls = captureFails + 1

\* C12: a decision failure (decide() throws, also on a response without a
\* JSON object) leaves the history as it was, dispatches nothing in that
\* iteration, keeps the incremented step counter, produces no result, and
\* the loop goes on with its next iteration (or the timeout).
C12_DecisionFailure ==
  /\ [][decideFails' # decideFails =>
          /\ decideError' \in DecideErrors
          /\ actionHistory' = actionHistory
          /\ actionHistory = iterStart.history
          /\ dispatches' = dispatches
          /\ dispatches = iterStart.dispatches
          /\ steps' = steps
          /\ steps = iterStart.steps + 1
          /\ results' = <<>>
          /\ pc' = "loop"]_vars
  /\ [](pc = "loop" /\ lastOutcome = "decideFail" =>
          /\ results = <<>>
          /\ steps < maxSteps => ENABLED BeginStep
          /\ steps >= maxSteps => ENABLED Timeout)

\* decide() threw for want of a JSON object, after an earlier dispatch
C12_Witness ==
  /\ pc = "loop"
  /\ lastOutcome = "decideFail"
  /\ decideError = "No JSON found in AI response"
  /\ Appended >= 1
  /\ steps < maxSteps

\* C13: a failed dispatch appends exactly the one entry 'error', is not
\* re-raised and lets the loop continue; a successful dispatch appends
\* exactly one entry, the summary of the action.
C13_DispatchRecorded ==
  /\ pc = "loop" /\ lastOutcome = "actError" =>
       /\ actionHistory = Append(iterStart.history, "error")
       /\ dispatches = iterStart.dispatches + 1
       /\ results = <<>>
       /\ ENABLED BeginStep \/ ENABLED Timeout
  /\ pc = "loop" /\ lastOutcome = "acted" =>
       /\ actionHistory = Append(iterStart.history, formatAction(decision))
       /\ dispatches = iterStart.dispatches + 1
       /\ results = <<>>
       /\ ENABLED BeginStep \/ ENABLED Timeout

\* a tap was dispatched and recorded after a failed dispatch
C13_Witness ==
  /\ pc = "loop"
  /\ lastOutcome = "acted"
  /\ actionHistory = <<"ready", "error", "tap(80,80)">>

\* C14: execute() never raises: every run that stops has returned exactly
\* one ExecutionResult, a run that has not returned can take a step, and a
\* run ends with steps < maxSteps only on a launch failure or a 'done' or
\* 'failed' decision.
C14_NeverRaises ==
  /\ pc \in {"launch", "loop", "capture", "decide", "handle", "returned"}
  /\ pc # "returned" => ENABLED Next
  /\ pc = "returned" =>
       /\ Len(results) = 1
       /\ Result.success \in BOOLEAN
       /\ Result.steps \in 0..maxSteps
       /\ Result.steps < maxSteps => exit \in {"launchFail", "done", "failed"}

\* a run returned by timeout after the launch succeeded and a capture, a
\* decision and a dispatch have each failed
C14_Witness ==
  /\ pc = "returned"
  /\ exit = "timeout"
  /\ hasBundleId
  /\ captureFails >= 1
  /\ decideFails >= 1
  /\ "error" \in {actionHistory[i] : i \in 1..Len(actionHistory)}

\* C15: once the loop has been entered the first history entry is the init
\* marker, 'launched' after exactly one successful launch call when an app
\* is configured, 'ready' with no launch call when none is; it stays first
\* for the rest of the run.
C15_InitMarker ==
  pc \in {"loop", "capture", "decide", "handle"} \/ (pc = "returned" /\ iterations > 0) =>
    /\ Len(actionHistory) >= 1
    /\ hasBundleId =>
         actionHistory[1] = "launched" /\ launchCalls = 1 /\ launchError = ""
    /\ ~hasBundleId =>
         actionHistory[1] = "ready" /\ launchCalls = 0
    /\ \A i \in 2..Len(actionHistory) : actionHistory[i] \notin {"launched", "ready"}

\* late in a run without a configured app
C15_Witness ==
  /\ pc = "handle"
  /\ ~hasBundleId
  /\ Len(actionHistory) >= 3
  /\ actionHistory[1] = "ready"

\* C16: provided every external call and pause returns, every run returns,
\* and it does so after at most maxSteps loop iterations whatever the oracle
\* and the backend do.
C16_Terminates ==
  /\ <>(pc = "returned")
  /\ [](iterations <= maxSteps /\ captureCalls <= maxSteps)

\* a run that used its whole budget on failures and non-terminal actions and
\* then returned
C16_Witness ==
  /\ pc = "returned"
  /\ iterations = maxSteps
  /\ maxSteps >= 3
  /\ captureFails >= 1
  /\ decideFails >= 1
  /\ dispatches >= 1

\* C30: in each iteration the capture, the oracle call and the dispatch
\* happen in that order and at most once each: the oracle is called only
\* after the capture of the same iteration succeeded, an action is
\* dispatched only after the oracle of the same iteration returned a
\* non-terminal decision, and a capture is requested only when no call of
\* the iteration before is pending. Over a run, captures requested = steps,
\* oracle calls = successful captures, dispatches <= successful oracle calls.
C30_PhaseOrder ==
  /\ [][/\ captureCalls' # captureCalls =>
             /\ pc = "loop"
             /\ captureCalls' = captureCalls + 1
             /\ iterations' = iterations + 1
        /\ decideCalls' # decideCalls =>
             /\ pc = "capture"
             /\ decideCalls' = decideCalls + 1
             /\ captureCalls = iterStart.captureCalls + 1
             /\ captureFails' = captureFails
             /\ decideCalls = iterStart.decideCalls
             /\ dispatches = iterStart.dispatches
        /\ dispatches' # dispatches =>
             /\ pc = "handle"
             /\ dispatches' = dispatches + 1
             /\ decision \in Decisions /\ decision.action \notin Terminal
             /\ decideCalls = iterStart.decideCalls + 1
             /\ decideFails' = decideFails
             /\ dispatches = iterStart.dispatches
             /\ pc' = "loop"]_vars
  /\ [](/\ captureCalls - iterStart.captureCalls <= 1
        /\ decideCalls - iterStart.decideCalls <= 1
        /\ dispatches - iterStart.dispatches <= 1
        /\ captureCalls = steps
        /\ decideCalls = captureCalls - captureFails - (IF pc = "capture" THEN 1 ELSE 0)
        /\ dispatches <= decideCalls - decideFails
        /\ pc = "returned" /\ exit # "launchFail" =>
             /\ captureCalls = Result.steps
             /\ decideCalls = captureCalls - captureFails)

\* the fourth iteration has captured and decided, after one iteration lost
\* to a capture failure, one to a decision failure and one that dispatched
C30_Witness ==
  /\ pc = "handle"
  /\ steps = 4
  /\ captureFails = 1
  /\ decideFails = 1
  /\ dispatches = 1
  /\ decideCalls = 3

\* C31: a 'done' or 'failed' decision dispatches no backend action and
\* appends no history entry: the run returns with the history exactly as it
\* was passed to that last oracle call.
C31_TerminalAppendsNothing ==
  /\ [][pc = "handle" /\ decision.action \in Terminal =>
          /\ actionHistory' = actionHistory
          /\ dispatches' = dispatches
          /\ lastCalls' = lastCalls
          /\ pc' = "returned"]_vars
  /\ [](pc = "returned" /\ exit \in Terminal =>
          /\ actionHistory = context.actionHistory
          /\ context.stepNumber = Result.steps
          /\ dispatches = iterStart.dispatches)

\* a run ended by 'failed' after two dispatches, one of which failed
C31_Witness ==
  /\ pc = "returned"
  /\ exit = "failed"
  /\ dispatches = 2
  /\ Len(actionHistory) = 3
  /\ actionHistory[2] = "error"
  /\ context.actionHistory = actionHistory

\* h is an initial part of g
IsPrefix(h, g) == Len(h) <= Len(g) /\ SubSeq(g, 1, Len(h)) = h

\* C32: the history is append-only: no step removes, reorders or changes an
\* entry, and an iteration appends no entry when it ends on a capture
\* failure, a decision failure or a terminal decision, and exactly one, the
\* action summary or 'error', when it dispatched.
C32_AppendOnly ==
  /\ [][/\ IsPrefix(actionHistory, actionHistory')
        /\ Len(actionHistory') <= Len(actionHistory) + 1]_vars
  /\ [](iterations > 0 =>
          /\ IsPrefix(iterStart.history, actionHistory)
          /\ pc = "loop" /\ lastOutcome \in {"captureFail", "decideFail"} =>
               actionHistory = iterStart.history
          /\ pc = "returned" /\ exit \in Terminal =>
               actionHistory = iterStart.history
          /\ pc = "loop" /\ lastOutcome = "acted" =>
               /\ Len(actionHistory) = Len(iterStart.history) + 1
               /\ actionHistory[Len(actionHistory)] = formatAction(decision)
          /\ pc = "loop" /\ lastOutcome = "actError" =>
               /\ Len(actionHistory) = Len(iterStart.history) + 1
               /\ actionHistory[Len(actionHistory)] = "error")

\* four iterations: two appended nothing, one a summary, one 'error'
C32_Witness ==
  /\ pc = "loop"
  /\ steps = 4
  /\ captureFails + decideFails = 2
  /\ actionHistory = <<"launched", "scroll", "error">>

(***************************************************************************)
(* Properties of the stuck-pattern detector.                               *)
(***************************************************************************)
\* sub occurs in s
Contains(s, sub) ==
  \E i \in 1..(Len(s) - Len(sub) + 1) : SubSeq(s, i, i + Len(sub) - 1) = sub

\* the last three entries of the history are one and the same string
TailAllSame ==
  /\ Len(actionHistory) >= 3
  /\ \A i \in (Len(actionHistory) - 2)..Len(actionHistory) :
       actionHistory[i] = actionHistory[Len(actionHistory)]

\* how many of the last three entries start with 'tap('
TailTaps ==
  Cardinality({i \in (Len(actionHistory) - 2)..Len(actionHistory) :
                 i >= 1 /\ StartsWithTap(actionHistory[i])})

\* C18: the detector returns no hint for a history of fewer than 3 entries,
\* the init marker counted; so the oracle calls of steps 1 and 2 get none.
C18_NoHintBelowThree ==
  /\ Len(actionHistory) < 3 => detectStuckPattern(actionHistory) = Absent
  /\ pc = "decide" /\ Len(actionHistory) < 3 => stuckWarning = Absent
  /\ pc = "decide" /\ steps <= 2 => Len(actionHistory) < 3 /\ stuckWarning = Absent

\* the oracle call of step 2, made on a history of marker and one tap
C18_Witness ==
  /\ pc = "decide"
  /\ steps = 2
  /\ actionHistory = <<"ready", "tap(80,80)">>
  /\ stuckWarning = Absent

\* C19: when the last three entries are the same string, whatever it is, the
\* detector returns the strong hint, which names that entry and contains
\* '3 times'; it is returned rather than the tap hint also when the three
\* entries start with 'tap('.
C19_StrongHint ==
  pc = "probed" /\ TailAllSame =>
    LET entry == actionHistory[Len(actionHistory)] IN
    /\ stuckWarning = Some(StrongHint(entry))
    /\ stuckWarning # Some(TapHint)
    /\ Contains(The(stuckWarning), "\"" \o entry \o "\"")
    /\ Contains(The(stuckWarning), "3 times")

\* three identical taps at the end of the history
C19_Witness ==
  /\ pc = "probed"
  /\ actionHistory = <<"ready", "tap(10,10)", "tap(10,10)", "tap(10,10)">>
  /\ stuckWarning # Absent
  /\ Contains(The(stuckWarning), "tap(10,10)")

\* C20: when the last three entries are not all the same and at least two
\* of them start with 'tap(', the detector returns the tap-adjustment hint.
C20_TapHint ==
  pc = "probed" /\ Len(actionHistory) >= 3 /\ ~TailAllSame /\ TailTaps >= 2 =>
    stuckWarning = Some(TapHint)

\* the tail tap, scroll, tap
C20_Witness ==
  /\ pc = "probed"
  /\ actionHistory = <<"tap(10,10)", "scroll", "tap(20,20)">>
  /\ stuckWarning = Some(TapHint)

\* the entry is the summary of a coordinate tap: 'tap(' and what follows
IsTapSummary(a) == Len(a) > 3 /\ SubSeq(a, 1, 4) = "tap("

\* the last three entries of the history
TailEntries == {actionHistory[i] : i \in (Len(actionHistory) - 2)..Len(actionHistory)}

\* C21: on a history of at least 3 entries whose last three are not all the
\* same and hold fewer than two summaries starting with 'tap(', the
\* detector returns no hint; 'tap', 'tapText(...)', 'doubleTap(...)' and
\* 'longPress(...)' entries are not counted as taps.
C21_NoHint ==
  pc = "probed" /\ Len(actionHistory) >= 3 /\ ~TailAllSame =>
    LET n == Len(actionHistory)
        taps == {i \in (n - 2)..n : IsTapSummary(actionHistory[i])}
    IN /\ Cardinality(taps) < 2 => stuckWarning = Absent
       /\ TailEntries \subseteq {"tap", "tapText(\"OK\")", "doubleTap(50,50)",
                          "longPress(50,50)"} => stuckWarning = Absent

\* the tail is a text tap, a double tap and a long press
C21_Witness ==
  /\ pc = "probed"
  /\ Len(actionHistory) = 4
  /\ LastThree(actionHistory) = <<"tapText(\"OK\")", "doubleTap(50,50)", "longPress(50,50)">>
  /\ stuckWarning = Absent

\* the hint as a function of the last three entries alone
HintOfWindow ==
  IF Len(actionHistory) < 3 THEN Absent
  ELSE detectStuckPattern(LastThree(actionHistory))

\* C22: the oracle call that computes the hint leaves the history, the step
\* counter and the termination status as they were, and the hint of every
\* oracle call is the function of the last three history entries at that
\* call, whatever hints earlier calls were given.
C22_HintPureAndFresh ==
  /\ [][decideCalls' # decideCalls =>
          /\ actionHistory' = actionHistory
          /\ steps' = steps
          /\ results' = results /\ exit' = exit
          /\ terminalSeen' = terminalSeen
          /\ dispatches' = dispatches /\ captureCalls' = captureCalls]_vars
  /\ [](pc = "decide" => stuckWarning = HintOfWindow)

\* the oracle call of step 4 gets the strong hint, the one of step 3 having
\* been given the tap hint
C22_Witness ==
  /\ pc = "decide"
  /\ steps = 4
  /\ actionHistory = <<"ready", "tap(80,80)", "tap(80,80)", "tap(80,80)">>
  /\ stuckWarning = Some(StrongHint("tap(80,80)"))

(***************************************************************************)
(* Properties of the action translator.                                    *)
(***************************************************************************)
\* the dispatch of the decision has completed
Dispatched == pc = "loop" /\ lastOutcome \in {"acted", "actError"}

\* the value of a parameter if the decision carries it, else dflt
Given(opt, dflt) == IF opt = {} THEN dflt ELSE CHOOSE v \in opt : TRUE

\* C23: the translator passes a present parameter unchanged and replaces
\* each absent one, independently of the others, by its default: (50,50)
\* for tap, doubleTap and the longPress without text, (50,50)->(50,20) for
\* swipe, 50 for eraseText, 'enter' for pressKey, 3000 for wait, '' for
\* tapText, inputText and openLink.
C23_Defaults ==
  Dispatched /\ decision.action \in
      {"tap", "doubleTap", "longPress", "swipe", "eraseText", "pressKey", "wait",
       "tapText", "inputText", "openLink"} =>
    /\ lastCalls # <<>>
    /\ LET p == decision.params
           a == decision.action
           first == lastCalls[1]
       IN /\ a = "tap" =>
               first = [prim |-> "tap", nums |-> <<Given(p.x, 50), Given(p.y, 50)>>, strs |-> <<>>]
          /\ a = "doubleTap" =>
               first = [prim |-> "doubleTap", nums |-> <<Given(p.x, 50), Given(p.y, 50)>>, strs |-> <<>>]
          /\ a = "longPress" /\ p.text = {} =>
               first = [prim |-> "longPress", nums |-> <<Given(p.x, 50), Given(p.y, 50)>>, strs |-> <<>>]
          /\ a = "swipe" =>
               first = [prim |-> "swipe",
                        nums |-> <<Given(p.startX, 50), Given(p.startY, 50),
                                   Given(p.endX, 50), Given(p.endY, 20)>>,
                        strs |-> <<>>]
          /\ a = "eraseText" =>
               first = [prim |-> "eraseText", nums |-> <<Given(p.chars, 50)>>, strs |-> <<>>]
          /\ a = "pressKey" =>
               first = [prim |-> "pressKey", nums |-> <<>>, strs |-> <<Given(p.key, "enter")>>]
          /\ a = "wait" =>
               first = [prim |-> "waitForAnimation", nums |-> <<Given(p.timeout, 3000)>>, strs |-> <<>>]
          /\ a = "tapText" =>
               first = [prim |-> "tapText", nums |-> <<>>, strs |-> <<Given(p.text, "")>>]
          /\ a = "inputText" =>
               first = [prim |-> "inputText", nums |-> <<>>, strs |-> <<Given(p.text, "")>>]
          /\ a = "openLink" =>
               first = [prim |-> "openLink", nums |-> <<>>, strs |-> <<Given(p.url, "")>>]

\* a swipe that carries only startX = 0 and endY = 0 was dispatched from
\* (0,50) to (50,0)
C23_Witness ==
  /\ Dispatched
  /\ decision.action = "swipe"
  /\ decision.params.startX = {0} /\ decision.params.startY = {}
  /\ decision.params.endX = {} /\ decision.params.endY = {0}
  /\ lastCalls = <<[prim |-> "swipe", nums |-> <<0, 50, 50, 0>>, strs |-> <<>>]>>

\* C24: a dispatch issues at most one backend call, and none after a call
\* that failed, except for 'back', which issues at most two: back, then one
\* edge-swipe; every kind of the vocabulary other than back, launchApp and
\* stopApp issues exactly one.
C24_AtMostOneCall ==
  Dispatched =>
    /\ dispatches = iterStart.dispatches + 1
    /\ decision.action # "back" => Len(lastCalls) <= 1
    /\ decision.action = "back" =>
         /\ Len(lastCalls) \in {1, 2}
         /\ lastCalls[1].prim = "back"
         /\ Len(lastCalls) = 2 => lastCalls[2].prim = "iosBackGesture"
    /\ decision.action \in DispatchedKinds \ {"back", "launchApp", "stopApp"} =>
         Len(lastCalls) = 1
    /\ lastOutcome = "actError" /\ decision.action # "back" => Len(lastCalls) = 1

\* a tap whose one backend call failed
C24_Witness ==
  /\ Dispatched
  /\ lastOutcome = "actError"
  /\ decision.action = "tap"
  /\ Len(lastCalls) = 1
  /\ actionHistory = <<"ready", "error">>

\* C25: for a 'back' decision, a back call that succeeds is the only call;
\* one that fails is followed by exactly one edge-swipe in the same step.
\* The step is recorded as 'back' when either of the two succeeded and as
\* 'error' when both failed, and it has advanced the step counter by one.
C25_BackFallback ==
  Dispatched /\ decision.action = "back" =>
    LET failed == trace[Len(trace)].failing
        backCall == [prim |-> "back", nums |-> <<>>, strs |-> <<>>]
        edgeSwipe == [prim |-> "iosBackGesture", nums |-> <<>>, strs |-> <<>>]
    IN /\ trace[Len(trace)].kind = "acted"
       /\ 1 \notin failed =>
            /\ lastCalls = <<backCall>>
            /\ actionHistory = Append(iterStart.history, "back")
       /\ 1 \in failed => lastCalls = <<backCall, edgeSwipe>>
       /\ 1 \in failed /\ 2 \notin failed =>
            /\ actionHistory = Append(iterStart.history, "back")
            /\ lastOutcome = "acted"
       /\ 1 \in failed /\ 2 \in failed =>
            /\ actionHistory = Append(iterStart.history, "error")
            /\ lastOutcome = "actError"
       /\ steps = iterStart.steps + 1
       /\ iterations = 1

\* back() failed and the edge-swipe succeeded
C25_Witness ==
  /\ Dispatched
  /\ decision.action = "back"
  /\ trace[Len(trace)].failing = {1}
  /\ Len(lastCalls) = 2
  /\ actionHistory = <<"ready", "back">>

\* C26: a decision whose kind is not in the vocabulary makes no backend
\* call and raises nothing: its dispatch returns normally, the run has no
\* result yet and goes on with its next iteration.
C26_UnknownKind ==
  Dispatched /\ decision.action \notin DispatchedKinds =>
    /\ lastCalls = <<>>
    /\ lastOutcome = "acted"
    /\ actionHistory = Append(iterStart.history, decision.action)
    /\ results = <<>>
    /\ steps < maxSteps
    /\ ENABLED BeginStep

\* the kind 'pinch' was dispatched
C26_Witness ==
  /\ Dispatched
  /\ decision.action = "pinch"
  /\ decision.hasParams
  /\ lastCalls = <<>>
  /\ lastOutcome = "acted"

\* C27: a launchApp or stopApp decision whose appId is missing or empty
\* makes no backend call and does not raise; with an appId it makes exactly
\* one call, launchApp or stopApp respectively, with that appId.
C27_AppIdRequired ==
  Dispatched /\ decision.action \in {"launchApp", "stopApp"} =>
    LET id == decision.params.appId IN
    /\ id = {} \/ id = {""} => lastCalls = <<>> /\ lastOutcome = "acted"
    /\ id # {} /\ id # {""} =>
         lastCalls = <<[prim |-> decision.action, nums |-> <<>>,
                        strs |-> <<CHOOSE v \in id : TRUE>>]>>

\* a stopApp with the empty appId was dispatched without a call
C27_Witness ==
  /\ Dispatched
  /\ decision.action = "stopApp"
  /\ decision.params.appId = {""}
  /\ lastCalls = <<>>
  /\ lastOutcome = "acted"

\* C28 as stated: a longPress whose text parameter is present dispatches
\* the text-targeted long press and never the coordinate one; without text
\* it dispatches the coordinate long press with defaults (50,50).
C28_Original ==
  Dispatched /\ decision.action = "longPress" =>
    LET p == decision.params IN
    /\ p.text # {} =>
         lastCalls = <<[prim |-> "longPressText", nums |-> <<>>,
                        strs |-> <<CHOOSE t \in p.text : TRUE>>]>>
    /\ p.text = {} =>
         lastCalls = <<[prim |-> "longPress",
                        nums |-> <<Given(p.x, 50), Given(p.y, 50)>>, strs |-> <<>>]>>

\* C28 amended: a longPress whose text parameter is present and not empty
\* dispatches the text-targeted long press with that text and never the
\* coordinate one; without text, or with the empty text, it dispatches the
\* coordinate long press at (x,y) with defaults (50,50). Exactly one of the
\* two is called.
C28_LongPressTarget ==
  Dispatched /\ decision.action = "longPress" =>
    LET p == decision.params IN
    /\ Len(lastCalls) = 1
    /\ p.text # {} /\ p.text # {""} =>
         lastCalls = <<[prim |-> "longPressText", nums |-> <<>>,
                        strs |-> <<CHOOSE t \in p.text : TRUE>>]>>
    /\ p.text = {} \/ p.text = {""} =>
         lastCalls = <<[prim |-> "longPress",
                        nums |-> <<Given(p.x, 50), Given(p.y, 50)>>, strs |-> <<>>]>>

\* a longPress with the empty text and x = 0 was dispatched at (0,50)
C28_Witness ==
  /\ Dispatched
  /\ decision.action = "longPress"
  /\ decision.params.text = {""}
  /\ decision.params.x = {0}
  /\ lastCalls = <<[prim |-> "longPress", nums |-> <<0, 50>>, strs |-> <<>>]>>

\* C29: the history entry appended for a successfully dispatched tap is
\* 'tap(x,y)' with the coordinates that were dispatched to the backend,
\* defaults included, so that it counts as a tap for the detector.
C29_TapSummary ==
  pc = "loop" /\ lastOutcome = "acted" /\ decision.action = "tap" =>
    LET dispatched == lastCalls[1].nums
        entry == actionHistory[Len(actionHistory)]
    IN /\ entry = "tap(" \o ToString(dispatched[1]) \o ","
                        \o ToString(dispatched[2]) \o ")"
       /\ IsTapSummary(entry)

\* C36 as stated: a dispatch that makes no backend call has advanced the
\* step counter by one and appended exactly one history entry, which is
\* not 'error'.
C36_Original ==
  Dispatched /\ lastCalls = <<>> =>
    /\ steps = iterStart.steps + 1
    /\ Len(actionHistory) = Len(iterStart.history) + 1
    /\ actionHistory[Len(actionHistory)] # "error"

\* C36 amended: a dispatch that makes no backend call (unknown kind,
\* launchApp or stopApp without appId) is accounted like a successful one:
\* the step counter has advanced by one and exactly one entry, the summary
\* of the decision, is appended; the entry differs from 'error' unless the
\* unknown kind is itself 'error'; and the next oracle call is passed the
\* history ending with it.
C36_NoCallStillRecorded ==
  /\ Dispatched /\ lastCalls = <<>> =>
       /\ decision.action \in UnknownKinds \cup {"launchApp", "stopApp"}
       /\ lastOutcome = "acted"
       /\ steps = iterStart.steps + 1
       /\ dispatches = iterStart.dispatches + 1
       /\ actionHistory = Append(iterStart.history, formatAction(decision))
       /\ decision.action # "error" => actionHistory[Len(actionHistory)] # "error"
  /\ pc = "decide" /\ dispatches = 1 /\ lastCalls = <<>> =>
       /\ steps = 2
       /\ Len(actionHistory) = 2
       /\ context.actionHistory = actionHistory
       /\ stuckWarning = detectStuckPattern(actionHistory)

\* the oracle call that follows a launchApp dispatched without appId
C36_Witness ==
  /\ pc = "decide"
  /\ steps = 2
  /\ dispatches = 1
  /\ lastCalls = <<>>
  /\ context.actionHistory = <<"ready", "launchApp(\"undefined\")">>

(***************************************************************************)
(* What a run does as a function of the logged outcomes, none of which     *)
(* carries a reasoning or a progress value.                                *)
(***************************************************************************)
IsIteration(e) == e.kind \in {"captureFail", "decideFail", "terminal", "acted"}

IsActed(e) == e.kind = "acted"

ReachedOracle(e) == e.kind \in {"decideFail", "terminal", "acted"}

LoggedIterations == SelectSeq(trace, IsIteration)

LoggedDispatches == SelectSeq(trace, IsActed)

LastLogged == trace[Len(trace)]

ExpectedMarker ==
  IF trace = <<>> \/ trace[1].kind = "launchFail" THEN <<>>
  ELSE IF trace[1].kind = "launchOk" THEN <<"launched">> ELSE <<"ready">>

ExpectedHistory ==
  ExpectedMarker \o
    [i \in 1..Len(LoggedDispatches) |->
       LET e == LoggedDispatches[i] IN
       IF executeAction(e.decision, e.failing).threw THEN "error"
       ELSE formatAction(e.decision)]

ExpectedLastCalls ==
  IF LoggedDispatches = <<>> THEN <<>>
  ELSE LET e == LoggedDispatches[Len(LoggedDispatches)]
       IN executeAction(e.decision, e.failing).calls

ExpectedEnd ==
  trace # <<>> /\ LastLogged.kind \in {"terminal", "launchFail"}

ExpectedSuccess ==
  trace # <<>> /\ LastLogged.kind = "terminal" /\ LastLogged.decision.action = "done"

\* C17: reasoning and progress do not influence control flow: the calls a
\* run has made, its history, and the success flag and steps it returns are
\* determined by the outcomes of its external calls with reasoning and
\* progress left out, so two runs that differ only in those values agree on
\* all of them.
C17_ReasoningProgressUnused ==
  recording /\ pc \in {"loop", "returned"} =>
    /\ \A i \in 1..Len(trace) :
         trace[i].decision.reasoning = "" /\ trace[i].decision.progress = 0
    /\ actionHistory = ExpectedHistory
    /\ steps = Len(LoggedIterations)
    /\ captureCalls = Len(LoggedIterations)
    /\ decideCalls = Len(SelectSeq(trace, ReachedOracle))
    /\ dispatches = Len(LoggedDispatches)
    /\ lastCalls = ExpectedLastCalls
    /\ ExpectedEnd => pc = "returned"
    /\ pc = "returned" =>
         /\ ExpectedEnd \/ Len(LoggedIterations) = maxSteps
         /\ Result.success = ExpectedSuccess
         /\ Result.steps = Len(LoggedIterations)

\* a 'done' decision with progress 40 and one with progress 100 end a run
\* alike; here the one with progress 40, after a dispatch
C17_Witness ==
  /\ recording
  /\ pc = "returned"
  /\ decision.action = "done"
  /\ decision.progress = 40
  /\ decision.reasoning = "no way forward"
  /\ Result.success
  /\ dispatches >= 1

(***************************************************************************)
(* Properties of the context the oracle is given.                          *)
(***************************************************************************)
\* C33: every oracle call receives the current step counter, which is the
\* index of the capture of the same iteration, the configured maxSteps, and
\* the whole history so far: the init marker followed by one entry per
\* action dispatched before, successful or failed, in order.
C33_OracleContext ==
  recording /\ pc = "decide" =>
    /\ context.stepNumber = steps
    /\ context.stepNumber = lastCapture
    /\ context.stepNumber = Len(LoggedIterations) + 1
    /\ context.maxSteps = maxSteps
    /\ context.actionHistory = actionHistory
    /\ context.actionHistory = ExpectedHistory
    /\ Len(context.actionHistory) = 1 + dispatches
    /\ context.actionHistory[1] = IF hasBundleId THEN "launched" ELSE "ready"

\* the oracle call of step 3, after a failed and a successful dispatch
C33_Witness ==
  /\ recording
  /\ pc = "decide"
  /\ context = [stepNumber |-> 3, maxSteps |-> 3,
                 actionHistory |-> <<"ready", "error", "tap(80,80)">>]

\* C34: the conversation the agent retains never holds more than 12
\* messages and the list given to the model in a call never more than 11,
\* whatever the order in which decide() calls succeed and fail.
C34_BoundedConversation ==
  /\ Len(conversationHistory) <= 12
  /\ Len(sent) <= 11
  /\ pc = "awaiting" => sent = conversationHistory

\* six calls that succeeded: 12 messages retained, 11 of them sent in the
\* sixth call
C34_Witness ==
  /\ pc = "idle"
  /\ decideCalls = 6
  /\ Len(conversationHistory) = 12
  /\ Len(sent) = 11

(***************************************************************************)
(* Properties of stuck detection across failed iterations.                 *)
(***************************************************************************)
IsFailedIteration(e) == e.kind \in {"captureFail", "decideFail"}

\* what a logged dispatch put in the history
Recorded(e) ==
  IF executeAction(e.decision, e.failing).threw THEN "error"
  ELSE formatAction(e.decision)

\* the last three dispatches succeeded with the same summary, whatever
\* failed iterations lie between and after them
ThreeAlikeRecorded ==
  /\ Len(LoggedDispatches) >= 3
  /\ \A i \in (Len(LoggedDispatches) - 2)..Len(LoggedDispatches) :
       /\ ~executeAction(LoggedDispatches[i].decision, LoggedDispatches[i].failing).threw
       /\ Recorded(LoggedDispatches[i]) = Recorded(LoggedDispatches[Len(LoggedDispatches)])

\* C35: iterations that fail at capture or at decision add nothing to the
\* history, so they neither reset nor interrupt stuck detection: an oracle
\* call made when the last three dispatches were recorded with the same
\* summary gets the strong hint naming it, however many failed iterations
\* separate or follow them.
C35_FailuresKeepWindow ==
  /\ [][captureFails' # captureFails \/ decideFails' # decideFails =>
          actionHistory' = actionHistory]_vars
  /\ [](pc = "decide" /\ ThreeAlikeRecorded =>
          LET summary == Recorded(LoggedDispatches[Len(LoggedDispatches)]) IN
          /\ stuckWarning = Some(StrongHint(summary))
          /\ context.actionHistory = actionHistory)

\* the oracle call of step 5: three scrolls recorded, the third one after
\* an iteration that failed at capture or decision
C35_Witness ==
  /\ pc = "decide"
  /\ steps = 5
  /\ captureFails + decideFails = 1
  /\ Len(SelectSeq(trace, IsFailedIteration)) = 1
  /\ trace[Len(trace) - 1].kind \in {"captureFail", "decideFail"}
  /\ actionHistory = <<"ready", "scroll", "scroll", "scroll">>
  /\ stuckWarning = Some(StrongHint("scroll"))

(***************************************************************************)
(* Properties of inputLongText.                                            *)
(***************************************************************************)
\* the strings of a sequence joined in order
RECURSIVE Concat(_)
Concat(seq) == IF seq = <<>> THEN "" ELSE seq[1] \o Concat(SubSeq(seq, 2, Len(seq)))

\* inputLongText has resolved or thrown
TypingOver == pc \in {"typedAll", "typeFailed"}

\* C37: inputLongText is lossless and order-preserving: the texts passed to
\* inputText, joined in call order, are at every moment an initial part of
\* the text and, once inputLongText has resolved, the whole text; none is
\* empty unless the text is; a text no longer than chunkSize is passed
\* whole in one call; and the chunking loop ends, inputLongText resolving
\* or throwing with the error of an inputText call.
C37_Lossless ==
  /\ [](/\ Concat(typed) = SubSeq(text, 1, Len(Concat(typed)))
        /\ text # "" => \A i \in 1..Len(typed) : typed[i] # ""
        /\ pc = "sending" =>
             /\ Concat(chunks) = text
             /\ typed = SubSeq(chunks, 1, Len(typed))
        /\ pc = "typedAll" => Concat(typed) = text
        /\ TypingOver /\ Len(text) <= chunkSize => typed = <<text>>)
  /\ <>TypingOver

\* 'a. a ' was entered with chunkSize 2 in two calls, 'a.' and ' a '
C37_Witness ==
  /\ pc = "typedAll"
  /\ text = "a. a "
  /\ chunkSize = 2
  /\ typed = <<"a.", " a ">>

\* C38: every text inputLongText passes to inputText is at most chunkSize
\* long.
C38_ChunkWithinSize ==
  \A i \in 1..Len(typed) : Len(typed[i]) <= chunkSize

====
